---- MODULE Spec2Model ----
(***************************************************************************)
(* Commission calculation, distribution and wallet ledger of the           *)
(* marketplace back office (backend/src/services/commissionService.ts,     *)
(* backend/src/services/orderService.ts and                                *)
(* backend/src/modules/admin/controllers/adminCommissionController.ts).    *)
(*                                                                         *)
(* Amounts are integers that count 1/10000 of a currency unit (and         *)
(* distances 1/10000 km), so that total * rate / 100 is exact for totals   *)
(* in whole hundredths and integer rates; the arithmetic is that of the    *)
(* reals, not of IEEE doubles.                                             *)
(*                                                                         *)
(* The store is MongoDB as mongoose drives it: a write made with a         *)
(* session is buffered until commitTransaction and dropped by              *)
(* abortTransaction; a write made without one is durable at once; a        *)
(* transaction reads the snapshot of its first read; a transaction that    *)
(* writes a document which was written after that snapshot aborts with a   *)
(* write conflict.  Concurrent requests interleave at their awaits.        *)
(***************************************************************************)
EXTENDS Integers, Sequences, FiniteSets, TLC

Sellers == {"s1", "s2"}
DeliveryBoys == {"d1"}
Subjects == Sellers \cup DeliveryBoys
Products == {"p1", "p2"}
Orders == {"o1", "o2"}
Requests == {"w1"}
Procs == {"p1", "p2"}

\* null / undefined, for an id
None == "none"

\* a number that may be undefined or null: << >>, or <<n>>
Unset == << >>
IsSet(x) == x # << >>

\* how many times the Delivered hook may run for one order
MaxHookRuns == 1
MaxHookRetries == 1
MaxReserved == 2
UnitPrice == 1000000
InitialStock == 5

VARIABLES
    sellers,      \* Seller documents: exists, commissionRate, commission
    deliveryBoys, \* Delivery documents: exists, commissionRate
    products,     \* Product documents with the rates of their categories
    orders,       \* Order documents: status, items, deliveryBoy, subtotal, deliveryDistanceKm
    settings,     \* AppSettings.deliveryConfig
    db,           \* committed collections: commissions, txns, balance, requests
    pc,           \* position of each concurrent request
    loc,          \* the locals of each concurrent request
    stale,        \* whether a document each open transaction writes was written since its snapshot
    last,         \* what the call that finished last returned
    succeeded,    \* history: orders for which distributeCommissions returned success
    processed,    \* history: the actions processWithdrawal answered with success, per request
    hookRuns      \* history: runs of the Delivered hook per order

vars == <<sellers, deliveryBoys, products, orders, settings, db, pc, loc, stale,
          last, succeeded, processed, hookRuns>>

static == <<sellers, deliveryBoys, products, orders, settings>>

-----------------------------------------------------------------------------
(* Rate resolution *)

DefaultSellerRate == 10
DefaultDeliveryRate == 5
HookDefaultRate == 10

\* commissionService.ts getSellerCommissionRate: the seller's own rate when it
\* is neither undefined nor null (0 included), 10 otherwise and when the seller
\* is not found
getSellerCommissionRate(seller) ==
    IF ~seller.exists THEN DefaultSellerRate
    ELSE IF IsSet(seller.commissionRate) THEN seller.commissionRate[1]
    ELSE DefaultSellerRate

\* commissionService.ts getDeliveryBoyCommissionRate
getDeliveryBoyCommissionRate(deliveryBoy) ==
    IF ~deliveryBoy.exists THEN DefaultDeliveryRate
    ELSE IF IsSet(deliveryBoy.commissionRate) THEN deliveryBoy.commissionRate[1]
    ELSE DefaultDeliveryRate

\* x && x > 0 on a rate that may be undefined
Positive(x) == IsSet(x) /\ x[1] # 0 /\ x[1] > 0

\* orderService.ts createCommissions, lines 116-160: sub-sub-category,
\* sub-category, category, seller.commission, 10
HookRate(seller, product) ==
    LET r1 == IF product.found /\ Positive(product.subSubRate)
              THEN product.subSubRate[1] ELSE 0
        r2 == IF r1 = 0 /\ product.found /\ Positive(product.subRate)
              THEN product.subRate[1] ELSE r1
        r3 == IF r2 = 0 /\ product.found /\ Positive(product.catRate)
              THEN product.catRate[1] ELSE r2
        r4 == IF r3 = 0 /\ Positive(seller.commission)
              THEN seller.commission[1] ELSE r3
    IN  IF r4 = 0 THEN HookDefaultRate ELSE r4

\* Math.round(x * 100) / 100 on an amount: to the nearest hundredth, half up
Round2(x) == ((x + 50) \div 100) * 100

-----------------------------------------------------------------------------
(* calculateOrderCommissions *)

\* index of the entry of sellerId in the Map, 0 when it has none
RECURSIVE MapIndex(_, _, _)
MapIndex(acc, sellerId, i) ==
    IF i > Len(acc) THEN 0
    ELSE IF acc[i].sellerId = sellerId THEN i
    ELSE MapIndex(acc, sellerId, i + 1)

\* commissionService.ts lines 100-110 with the += on orderAmount left out
AddItemNoOrderAmount(acc, item) ==
    LET rate == getSellerCommissionRate(sellers[item.seller])
        commissionAmount == (item.total * rate) \div 100
        i == MapIndex(acc, item.seller, 1)
    IN  IF i > 0
        THEN [acc EXCEPT ![i].amount = @ + commissionAmount]
        ELSE Append(acc, [sellerId |-> item.seller, amount |-> commissionAmount,
                          rate |-> rate, orderAmount |-> item.total])

\* commissionService.ts lines 89-111, one iteration
AddItem(acc, item) ==
    LET rate == getSellerCommissionRate(sellers[item.seller])
        commissionAmount == (item.total * rate) \div 100
        i == MapIndex(acc, item.seller, 1)
    IN  IF i > 0
        THEN [acc EXCEPT ![i].amount = @ + commissionAmount,
                         ![i].orderAmount = @ + item.total]
        ELSE Append(acc, [sellerId |-> item.seller, amount |-> commissionAmount,
                          rate |-> rate, orderAmount |-> item.total])

RECURSIVE SellerCommissions(_, _, _)
SellerCommissions(items, i, acc) ==
    IF i > Len(items) THEN acc
    ELSE IF ~items[i].found THEN SellerCommissions(items, i + 1, acc)
    ELSE SellerCommissions(items, i + 1, AddItem(acc, items[i]))

\* the delivery commission with the subtotal recorded as orderAmount on every
\* path
DeliveryCommissionSubtotalBasis(order) ==
    IF order.deliveryBoy = None THEN << >>
    ELSE LET usedDistanceBased ==
                 /\ settings.readable
                 /\ settings.isDistanceBased = TRUE
                 /\ IsSet(settings.deliveryBoyKmRate)
                 /\ settings.deliveryBoyKmRate[1] # 0
                 /\ IsSet(order.deliveryDistanceKm)
                 /\ order.deliveryDistanceKm[1] # 0
                 /\ order.deliveryDistanceKm[1] > 0
             rate == IF usedDistanceBased THEN settings.deliveryBoyKmRate[1]
                     ELSE getDeliveryBoyCommissionRate(deliveryBoys[order.deliveryBoy])
             amount == IF usedDistanceBased THEN order.deliveryDistanceKm[1] * rate
                       ELSE (order.subtotal * rate) \div 100
         IN  <<[deliveryBoyId |-> order.deliveryBoy,
                amount |-> Round2(amount),
                rate |-> rate,
                orderAmount |-> order.subtotal]>>

\* commissionService.ts lines 121-159: << >> when the order has no delivery
\* boy, else the one commission
DeliveryCommission(order) ==
    IF order.deliveryBoy = None THEN << >>
    ELSE LET usedDistanceBased ==
                 /\ settings.readable
                 /\ settings.isDistanceBased = TRUE
                 /\ IsSet(settings.deliveryBoyKmRate)
                 /\ settings.deliveryBoyKmRate[1] # 0
                 /\ IsSet(order.deliveryDistanceKm)
                 /\ order.deliveryDistanceKm[1] # 0
                 /\ order.deliveryDistanceKm[1] > 0
             rate == IF usedDistanceBased THEN settings.deliveryBoyKmRate[1]
                     ELSE getDeliveryBoyCommissionRate(deliveryBoys[order.deliveryBoy])
             amount == IF usedDistanceBased THEN order.deliveryDistanceKm[1] * rate
                       ELSE (order.subtotal * rate) \div 100
         IN  <<[deliveryBoyId |-> order.deliveryBoy,
                amount |-> Round2(amount),
                rate |-> rate,
                orderAmount |-> IF usedDistanceBased THEN order.deliveryDistanceKm[1]
                                ELSE order.subtotal]>>

calculateOrderCommissions(order) ==
    [seller |-> SellerCommissions(order.items, 1, << >>),
     deliveryBoy |-> DeliveryCommission(order)]

-----------------------------------------------------------------------------
(* The store: committed collections and the writes the handlers make *)

Commission(order, seller, deliveryBoy, type, orderItem, orderAmount, rate, amount, status, paidAt) ==
    [order |-> order, seller |-> seller, deliveryBoy |-> deliveryBoy, type |-> type,
     orderItem |-> orderItem, orderAmount |-> orderAmount, commissionRate |-> rate,
     commissionAmount |-> amount, status |-> status, paidAt |-> paidAt]

WalletTransaction(subject, type, amount, description, ref) ==
    [subject |-> subject, type |-> type, amount |-> amount,
     description |-> description, ref |-> ref]

\* the writes; session tells whether the call was handed the session
CreateCommission(rec, session) ==
    [op |-> "Commission.create", rec |-> rec, session |-> session]
SaveCommission(id, status, session) ==
    [op |-> "commission.save", id |-> id, status |-> status, session |-> session]
CreditWallet(subject, amount, description, ref, session) ==
    [op |-> "creditWallet", subject |-> subject, amount |-> amount,
     description |-> description, ref |-> ref, session |-> session]
DebitWallet(subject, amount, description, ref, session) ==
    [op |-> "debitWallet", subject |-> subject, amount |-> amount,
     description |-> description, ref |-> ref, session |-> session]
SaveRequest(id, set, session) ==
    [op |-> "request.save", id |-> id, set |-> set, session |-> session]
SaveBalance(subject, balance) ==
    [op |-> "seller.save", subject |-> subject, balance |-> balance, session |-> FALSE]
CreateWalletTransaction(rec) ==
    [op |-> "WalletTransaction.create", rec |-> rec, session |-> FALSE]

\* walletManagementService creditWallet: one WalletTransaction row and the
\* increment of the subject's balance, both in the caller's transaction
creditWallet(d, w) ==
    [d EXCEPT !.txns = Append(@, WalletTransaction(w.subject, "Credit", w.amount,
                                                   w.description, w.ref)),
              !.balance[w.subject] = @ + w.amount]

\* walletManagementService debitWallet: the same with a Debit row and a decrement
debitWallet(d, w) ==
    [d EXCEPT !.txns = Append(@, WalletTransaction(w.subject, "Debit", w.amount,
                                                   w.description, w.ref)),
              !.balance[w.subject] = @ - w.amount]

\* debitWallet refuses an amount larger than the balance (InsufficientFunds)
Throws(d, w) == w.op = "debitWallet" /\ w.amount > d.balance[w.subject]

\* document.save() sends the modified paths only
Merge(doc, set) == [f \in DOMAIN doc |-> IF f \in DOMAIN set THEN set[f] ELSE doc[f]]

Apply(d, w) ==
    CASE w.op = "Commission.create" -> [d EXCEPT !.commissions = Append(@, w.rec)]
      [] w.op = "commission.save" -> [d EXCEPT !.commissions[w.id].status = w.status]
      [] w.op = "creditWallet" -> creditWallet(d, w)
      [] w.op = "debitWallet" -> debitWallet(d, w)
      [] w.op = "request.save" -> [d EXCEPT !.requests[w.id] = Merge(@, w.set)]
      [] w.op = "seller.save" -> [d EXCEPT !.balance[w.subject] = w.balance]
      [] w.op = "WalletTransaction.create" -> [d EXCEPT !.txns = Append(@, w.rec)]

RECURSIVE ApplyAll(_, _, _)
ApplyAll(d, ws, i) ==
    IF i > Len(ws) THEN d ELSE ApplyAll(Apply(d, ws[i]), ws, i + 1)

\* the first write of ws that throws as the transaction sees the store, 0 if none
RECURSIVE FirstThrow(_, _, _)
FirstThrow(d, ws, i) ==
    IF i > Len(ws) THEN 0
    ELSE IF Throws(d, ws[i]) THEN i
    ELSE FirstThrow(Apply(d, ws[i]), ws, i + 1)

NoSession(w) == ~w.session

\* the documents a write updates in place (an insert conflicts with nothing)
Doc(w) ==
    CASE w.op \in {"creditWallet", "debitWallet", "seller.save"} -> {<<"subject", w.subject>>}
      [] w.op = "commission.save" -> {<<"commission", w.id>>}
      [] w.op = "request.save" -> {<<"request", w.id>>}
      [] OTHER -> {}

Docs(ws) == UNION {Doc(ws[i]) : i \in 1..Len(ws)}

\* a transaction that goes on after debitWallet's refusal and commits
RunTransactionIgnoreThrow(d, ws, conflict, fault, k) ==
    LET msg == IF fault THEN "fault" ELSE IF conflict THEN "write_conflict" ELSE "ok"
        done == IF fault THEN k ELSE Len(ws)
    IN  [ok |-> msg = "ok",
         msg |-> msg,
         done |-> done,
         db |-> IF msg = "ok" THEN ApplyAll(d, ws, 1)
                ELSE ApplyAll(d, SelectSeq(SubSeq(ws, 1, done), NoSession), 1)]

\* A handler's try block: the writes ws are made in turn; one of them may throw
\* (debitWallet's refusal, or any awaited call rejecting: fault, after k writes);
\* a write to a document that was written since the snapshot is a write
\* conflict.  Then the catch block aborts and only the writes made without the
\* session stay; otherwise commitTransaction makes them all durable.
RunTransaction(d, ws, conflict, fault, k) ==
    LET j == FirstThrow(d, ws, 1)
        done == IF j > 0 /\ (~fault \/ j - 1 <= k) THEN j - 1
                ELSE IF fault THEN k ELSE Len(ws)
        msg == IF j > 0 /\ done = j - 1 THEN "insufficient_funds"
               ELSE IF fault THEN "fault"
               ELSE IF conflict THEN "write_conflict"
               ELSE "ok"
    IN  [ok |-> msg = "ok",
         msg |-> msg,
         done |-> done,
         db |-> IF msg = "ok" THEN ApplyAll(d, ws, 1)
                ELSE ApplyAll(d, SelectSeq(SubSeq(ws, 1, done), NoSession), 1)]

\* the documents that differ between two states of the store
Changed(d, e) ==
    {<<"subject", s>> : s \in {x \in Subjects : d.balance[x] # e.balance[x]}}
    \cup {<<"commission", i>> :
            i \in {x \in 1..Len(d.commissions) : d.commissions[x] # e.commissions[x]}}
    \cup {<<"request", w>> : w \in {x \in Requests : d.requests[x] # e.requests[x]}}

-----------------------------------------------------------------------------
(* Initial state *)

\* an OrderItem; every product sells at 100 a piece
Item(seller, product, total) ==
    [seller |-> seller, product |-> product, total |-> total, found |-> TRUE,
     quantity |-> total \div UnitPrice]

\* The orders the model starts from.  o1: three items of two sellers and a
\* delivery partner 7.5 km away, or no item and no delivery partner.  o2: one
\* item of s1 still out for delivery, or one delivered item of s2.
OrderCfgs ==
    [o1 : {[status |-> "Delivered",
            items |-> <<Item("s1", "p1", 1000000), Item("s2", "p2", 2000000),
                        Item("s1", "p2", 3000000)>>,
            deliveryBoy |-> "d1", subtotal |-> 6000000,
            deliveryDistanceKm |-> <<75000>>],
           [status |-> "Delivered", items |-> << >>,
            deliveryBoy |-> None, subtotal |-> 0, deliveryDistanceKm |-> Unset]},
     o2 : {[status |-> "Out for Delivery", items |-> <<Item("s1", "p1", 1000000)>>,
            deliveryBoy |-> None, subtotal |-> 1000000, deliveryDistanceKm |-> Unset],
           [status |-> "Delivered", items |-> <<Item("s2", "p1", 1000000)>>,
            deliveryBoy |-> None, subtotal |-> 1000000, deliveryDistanceKm |-> Unset]}]

SettingsCfgs ==
    {[readable |-> TRUE, isDistanceBased |-> FALSE, deliveryBoyKmRate |-> <<0>>,
      sellerCommissionRate |-> Unset, deliveryBoyCommissionRate |-> Unset,
      minimumWithdrawalAmount |-> Unset],
     [readable |-> TRUE, isDistanceBased |-> TRUE, deliveryBoyKmRate |-> <<10>>,
      sellerCommissionRate |-> Unset, deliveryBoyCommissionRate |-> Unset,
      minimumWithdrawalAmount |-> Unset]}

NoCall == [op |-> "none"]

InitStore ==
    \* s1 earned 500 and asked to withdraw it: the amount left the balance when
    \* the request was made
    /\ db = [commissions |-> << >>,
             txns |-> <<WalletTransaction("s1", "Credit", 5000000, "Earnings", None),
                        WalletTransaction("s1", "Debit", 5000000, "Withdrawal", "w1")>>,
             balance |-> [s \in Subjects |-> 0],
             requests |-> [w \in Requests |->
                             [userId |-> "s1", userType |-> "SELLER", amount |-> 5000000,
                              status |-> "Pending", remarks |-> None,
                              processedAt |-> None, transactionReference |-> None]],
             inventory |-> [x \in Products |->
                              [currentStock |-> InitialStock, reservedStock |-> 0,
                               availableStock |-> InitialStock]]]
    /\ pc = [p \in Procs |-> "idle"]
    /\ loc = [p \in Procs |-> NoCall]
    /\ stale = [p \in Procs |-> FALSE]
    /\ last = NoCall
    /\ succeeded = {}
    /\ processed = [w \in Requests |-> << >>]
    /\ hookRuns = [o \in Orders |-> 0]

Init ==
    /\ sellers = [s \in Sellers |->
                    IF s = "s1"
                    THEN [exists |-> TRUE, commissionRate |-> <<15>>, commission |-> <<15>>]
                    ELSE [exists |-> TRUE, commissionRate |-> Unset, commission |-> <<0>>]]
    /\ deliveryBoys = [b \in DeliveryBoys |-> [exists |-> TRUE, commissionRate |-> Unset]]
    /\ products = [x \in Products |->
                     IF x = "p1"
                     THEN [found |-> TRUE, subSubRate |-> <<8>>, subRate |-> <<12>>,
                           catRate |-> <<0>>]
                     ELSE [found |-> TRUE, subSubRate |-> Unset, subRate |-> Unset,
                           catRate |-> Unset]]
    /\ orders \in OrderCfgs
    /\ settings \in SettingsCfgs
    /\ InitStore

-----------------------------------------------------------------------------
(* distributeCommissions *)

\* an order id that names no order
NoOrder == "o0"

CommissionsOf(d, o) == {i \in 1..Len(d.commissions) : d.commissions[i].order = o}

\* commissionService.ts lines 209-238
RECURSIVE SellerWrites(_, _, _)
SellerWrites(o, sc, i) ==
    IF i > Len(sc) THEN << >>
    ELSE <<CreateCommission(Commission(o, sc[i].sellerId, None, "SELLER", None,
                                       sc[i].orderAmount, sc[i].rate, sc[i].amount,
                                       "Paid", "now"), TRUE),
           CreditWallet(sc[i].sellerId, sc[i].orderAmount - sc[i].amount,
                        "Sale proceeds", o, TRUE)>>
         \o SellerWrites(o, sc, i + 1)

\* commissionService.ts lines 241-266
DeliveryWrites(o, dc) ==
    IF dc = << >> THEN << >>
    ELSE <<CreateCommission(Commission(o, None, dc[1].deliveryBoyId, "DELIVERY_BOY",
                                       None, dc[1].orderAmount, dc[1].rate,
                                       dc[1].amount, "Paid", "now"), TRUE),
           CreditWallet(dc[1].deliveryBoyId, dc[1].amount, "Commission", o, TRUE)>>

WithoutSession(ws, op) ==
    [i \in 1..Len(ws) |-> IF ws[i].op = op THEN [ws[i] EXCEPT !.session = FALSE]
                          ELSE ws[i]]

\* distributeCommissions with creditWallet called without the session
DistributeWritesCreditNoSession(o) ==
    LET c == calculateOrderCommissions(orders[o])
    IN  WithoutSession(SellerWrites(o, c.seller, 1) \o DeliveryWrites(o, c.deliveryBoy),
                       "creditWallet")

\* commissionService.ts lines 198-266: the writes of one distribution
DistributeWrites(o) ==
    LET c == calculateOrderCommissions(orders[o])
    IN  SellerWrites(o, c.seller, 1) \o DeliveryWrites(o, c.deliveryBoy)

\* distributeCommissions without the check of lines 188-190
DistributeGuardNoStatus(o) ==
    IF o \notin Orders THEN "not_found"
    ELSE IF CommissionsOf(db, o) # {} THEN "already_distributed"
    ELSE "ok"

\* distributeCommissions without the check of lines 192-196
DistributeGuardNoExisting(o) ==
    IF o \notin Orders THEN "not_found"
    ELSE IF orders[o].status # "Delivered" THEN "invalid_state"
    ELSE "ok"

\* the guards with the Cancelled commissions left out of the existing ones
DistributeGuardIgnoresCancelled(o) ==
    IF o \notin Orders THEN "not_found"
    ELSE IF orders[o].status # "Delivered" THEN "invalid_state"
    ELSE IF \E i \in CommissionsOf(db, o) : db.commissions[i].status # "Cancelled"
    THEN "already_distributed"
    ELSE "ok"

\* the guards with a refusal of an order that has nothing to distribute
DistributeGuardNeedsCommissions(o) ==
    IF o \notin Orders THEN "not_found"
    ELSE IF orders[o].status # "Delivered" THEN "invalid_state"
    ELSE IF CommissionsOf(db, o) # {} THEN "already_distributed"
    ELSE IF orders[o].items = << >> \/ orders[o].deliveryBoy = None THEN "nothing"
    ELSE "ok"

\* commissionService.ts lines 182-196: the guards, on the transaction's snapshot
DistributeGuard(o) ==
    IF o \notin Orders THEN "not_found"
    ELSE IF orders[o].status # "Delivered" THEN "invalid_state"
    ELSE IF CommissionsOf(db, o) # {} THEN "already_distributed"
    ELSE "ok"

\* the documents the open transaction of q is going to write
WriteSet(q) ==
    IF pc[q] = "dist" THEN Docs(DistributeWrites(loc[q].order))
    ELSE IF pc[q] = "rev"
    THEN {<<"commission", i>> : i \in loc[q].paid}
         \cup {<<"subject", IF db.commissions[i].type = "SELLER"
                            THEN db.commissions[i].seller
                            ELSE db.commissions[i].deliveryBoy>> : i \in loc[q].paid}
    ELSE {}

\* p has written docs durably: the open transactions of the others that write
\* one of them hold a stale snapshot now
Invalidate(p, docs) ==
    [q \in Procs |-> IF q = p THEN FALSE ELSE stale[q] \/ (WriteSet(q) \cap docs # {})]

\* the distributeCommissions calls for order o that are under way
Racing(o) == {q \in Procs : pc[q] = "dist" /\ loc[q].order = o}

DistributeStart(p, o) ==
    /\ pc[p] = "idle"
    /\ LET g == DistributeGuard(o)
       IN  IF g # "ok"
           THEN /\ last' = [op |-> "distribute", id |-> o, ok |-> FALSE, msg |-> g,
                            later |-> o \in succeeded, written |-> 0,
                            raced |-> FALSE, peer |-> None]
                /\ UNCHANGED <<pc, loc, stale>>
           ELSE /\ pc' = [pc EXCEPT ![p] = "dist"]
                /\ loc' = [q \in Procs |->
                             IF q = p
                             THEN [op |-> "distribute", order |-> o,
                                   later |-> o \in succeeded,
                                   raced |-> Racing(o) # {}, peer |-> None]
                             ELSE IF q \in Racing(o) THEN [loc[q] EXCEPT !.raced = TRUE]
                             ELSE loc[q]]
                /\ stale' = [stale EXCEPT ![p] = FALSE]
                /\ UNCHANGED last
    /\ UNCHANGED <<static, db, succeeded, processed, hookRuns>>

DistributeFinish(p) ==
    /\ pc[p] = "dist"
    /\ LET o == loc[p].order
           ws == DistributeWrites(o)
       IN  \E fault \in BOOLEAN, k \in 0..Len(ws) :
             /\ (~fault => k = Len(ws))
             /\ LET out == RunTransaction(db, ws, stale[p], fault, k)
                IN  /\ db' = out.db
                    /\ last' = [op |-> "distribute", id |-> o, ok |-> out.ok,
                                msg |-> out.msg, later |-> loc[p].later,
                                written |-> out.done,
                                raced |-> loc[p].raced, peer |-> loc[p].peer]
                    /\ succeeded' = IF out.ok THEN succeeded \cup {o} ELSE succeeded
                    /\ stale' = Invalidate(p, Changed(db, out.db))
                    \* the call that raced with this one learns how this one ended
                    /\ loc' = [q \in Procs |->
                                 IF q = p THEN NoCall
                                 ELSE IF q \in Racing(o) /\ loc[q].peer = None
                                 THEN [loc[q] EXCEPT !.peer = out.msg]
                                 ELSE loc[q]]
    /\ pc' = [pc EXCEPT ![p] = "idle"]
    /\ UNCHANGED <<static, processed, hookRuns>>

-----------------------------------------------------------------------------
(* reverseCommissions *)

\* reverseCommissions taking every commission of the order, whatever its status
PaidCommissionsAnyStatus(d, o) == CommissionsOf(d, o)

\* reverseCommissions taking the Pending commissions of the order as well
PaidCommissionsWithPending(d, o) ==
    {i \in CommissionsOf(d, o) : d.commissions[i].status \in {"Paid", "Pending"}}

\* commissionService.ts line 360: the commissions of the order that are Paid
PaidCommissions(d, o) == {i \in CommissionsOf(d, o) : d.commissions[i].status = "Paid"}

\* reverseCommissions with debitWallet called without the session
RECURSIVE ReverseWritesDebitNoSession(_, _, _)
ReverseWritesDebitNoSession(o, ids, i) ==
    IF i > Len(db.commissions) THEN << >>
    ELSE IF i \in ids
    THEN LET c == db.commissions[i]
             userId == IF c.type = "SELLER" THEN c.seller ELSE c.deliveryBoy
         IN  <<SaveCommission(i, "Cancelled", TRUE)>>
             \o (IF userId # None
                 THEN <<DebitWallet(userId, c.commissionAmount, "Commission reversal",
                                    o, FALSE)>>
                 ELSE << >>)
             \o ReverseWritesDebitNoSession(o, ids, i + 1)
    ELSE ReverseWritesDebitNoSession(o, ids, i + 1)

\* commissionService.ts lines 358-380: for each commission of the order that
\* the call found Paid (ids), the save of its new status and the debit of its
\* subject
RECURSIVE ReverseWrites(_, _, _)
ReverseWrites(o, ids, i) ==
    IF i > Len(db.commissions) THEN << >>
    ELSE IF i \in ids
    THEN LET c == db.commissions[i]
             userId == IF c.type = "SELLER" THEN c.seller ELSE c.deliveryBoy
         IN  <<SaveCommission(i, "Cancelled", TRUE)>>
             \o (IF userId # None
                 THEN <<DebitWallet(userId, c.commissionAmount, "Commission reversal",
                                    o, TRUE)>>
                 ELSE << >>)
             \o ReverseWrites(o, ids, i + 1)
    ELSE ReverseWrites(o, ids, i + 1)

ReverseStart(p, o) ==
    /\ pc[p] = "idle"
    /\ IF CommissionsOf(db, o) = {}
       THEN /\ last' = [op |-> "reverse", id |-> o, ok |-> TRUE, msg |-> "nothing"]
            /\ UNCHANGED <<pc, loc, stale>>
       ELSE /\ pc' = [pc EXCEPT ![p] = "rev"]
            /\ loc' = [loc EXCEPT ![p] = [op |-> "reverse", order |-> o,
                                          paid |-> PaidCommissions(db, o)]]
            /\ stale' = [stale EXCEPT ![p] = FALSE]
            /\ UNCHANGED last
    /\ UNCHANGED <<static, db, succeeded, processed, hookRuns>>

ReverseFinish(p) ==
    /\ pc[p] = "rev"
    /\ LET o == loc[p].order
           ws == ReverseWrites(o, loc[p].paid, 1)
       IN  \E fault \in BOOLEAN, k \in 0..Len(ws) :
             /\ (~fault => k = Len(ws))
             /\ LET out == RunTransaction(db, ws, stale[p], fault, k)
                IN  /\ db' = out.db
                    /\ last' = [op |-> "reverse", id |-> o, ok |-> out.ok,
                                msg |-> out.msg]
                    /\ stale' = Invalidate(p, Changed(db, out.db))
    /\ pc' = [pc EXCEPT ![p] = "idle"]
    /\ loc' = [loc EXCEPT ![p] = NoCall]
    /\ UNCHANGED <<static, succeeded, processed, hookRuns>>

-----------------------------------------------------------------------------
(* processOrderStatusTransition(orderId, "Delivered", ...) -> createCommissions *)

\* the aggregation with the item total taken as the net earning
AddEarningGross(acc, sellerId, total, commissionAmount) ==
    LET i == MapIndex(acc, sellerId, 1)
    IN  IF i > 0
        THEN [acc EXCEPT ![i].totalAmount = @ + total,
                         ![i].commissionAmount = @ + commissionAmount,
                         ![i].netEarning = @ + total]
        ELSE Append(acc, [sellerId |-> sellerId, totalAmount |-> total,
                          commissionAmount |-> commissionAmount,
                          netEarning |-> total])

\* orderService.ts lines 179-192
AddEarning(acc, sellerId, total, commissionAmount) ==
    LET i == MapIndex(acc, sellerId, 1)
        netEarning == total - commissionAmount
    IN  IF i > 0
        THEN [acc EXCEPT ![i].totalAmount = @ + total,
                         ![i].commissionAmount = @ + commissionAmount,
                         ![i].netEarning = @ + netEarning]
        ELSE Append(acc, [sellerId |-> sellerId, totalAmount |-> total,
                          commissionAmount |-> commissionAmount,
                          netEarning |-> netEarning])

\* orderService.ts lines 103-193, the first pass: the Commission.create of each
\* item whose seller exists, and the Map of earnings by seller
RECURSIVE FirstPass(_, _, _, _)
FirstPass(o, items, i, acc) ==
    IF i > Len(items) THEN acc
    ELSE IF ~items[i].found \/ ~sellers[items[i].seller].exists
    THEN FirstPass(o, items, i + 1, acc)
    ELSE LET item == items[i]
             commissionRate == HookRate(sellers[item.seller], products[item.product])
             commissionAmount == (item.total * commissionRate) \div 100
         IN  FirstPass(o, items, i + 1,
                 [created |-> Append(acc.created,
                      CreateCommission(Commission(o, item.seller, None, None, i,
                                                  item.total, commissionRate,
                                                  commissionAmount, "Pending", None),
                                       FALSE)),
                  earnings |-> AddEarning(acc.earnings, item.seller, item.total,
                                          commissionAmount)])

HookDone(p, o, ok, msg) ==
    /\ last' = [op |-> "hook", id |-> o, ok |-> ok, msg |-> msg]
    /\ pc' = [pc EXCEPT ![p] = "idle"]
    /\ loc' = [loc EXCEPT ![p] = NoCall]

\* the Delivered case of processOrderStatusTransition up to the end of the
\* first pass of createCommissions
HookCall(p, o) ==
    /\ pc[p] = "idle"
    /\ orders[o].status = "Delivered"
    /\ hookRuns' = [hookRuns EXCEPT ![o] = @ + 1]
    /\ LET r == FirstPass(o, orders[o].items, 1, [created |-> << >>, earnings |-> << >>])
       IN  /\ db' = ApplyAll(db, r.created, 1)
           /\ IF r.earnings = << >>
              THEN HookDone(p, o, TRUE, "ok")
              ELSE /\ pc' = [pc EXCEPT ![p] = "hookRead"]
                   /\ loc' = [loc EXCEPT ![p] = [op |-> "hook", order |-> o,
                                                 earnings |-> r.earnings, i |-> 1,
                                                 balance |-> 0]]
                   /\ UNCHANGED last
    /\ UNCHANGED <<static, stale, succeeded, processed>>

\* the Delivered event of an order, delivered to the hook once
HookStart(p, o) ==
    /\ hookRuns[o] < MaxHookRuns
    /\ HookCall(p, o)

\* the Delivered event of an order delivered again: a retry or a duplicate
HookRetry(p, o) ==
    /\ hookRuns[o] >= 1
    /\ hookRuns[o] <= MaxHookRetries
    /\ HookCall(p, o)

\* orderService.ts lines 196-198: Seller.findById
HookRead(p) ==
    /\ pc[p] = "hookRead"
    /\ LET e == loc[p].earnings[loc[p].i]
       IN  IF sellers[e.sellerId].exists
           THEN /\ pc' = [pc EXCEPT ![p] = "hookSave"]
                /\ loc' = [loc EXCEPT ![p].balance = db.balance[e.sellerId]]
                /\ UNCHANGED last
           ELSE IF loc[p].i = Len(loc[p].earnings)
           THEN HookDone(p, loc[p].order, TRUE, "ok")
           ELSE /\ loc' = [loc EXCEPT ![p].i = @ + 1]
                /\ UNCHANGED <<pc, last>>
    /\ UNCHANGED <<static, db, stale, succeeded, processed, hookRuns>>

\* orderService.ts lines 201-202: seller.balance = balance + netEarning; save()
HookSave(p) ==
    /\ pc[p] = "hookSave"
    /\ LET e == loc[p].earnings[loc[p].i]
       IN  /\ db' = Apply(db, SaveBalance(e.sellerId, loc[p].balance + e.netEarning))
           /\ stale' = Invalidate(p, {<<"subject", e.sellerId>>})
    /\ pc' = [pc EXCEPT ![p] = "hookTxn"]
    /\ UNCHANGED <<static, loc, last, succeeded, processed, hookRuns>>

\* orderService.ts lines 205-215: WalletTransaction.create
HookTxn(p) ==
    /\ pc[p] = "hookTxn"
    /\ LET e == loc[p].earnings[loc[p].i]
       IN  db' = Apply(db, CreateWalletTransaction(
                     WalletTransaction(e.sellerId, "Credit", e.netEarning, "Earnings",
                                       loc[p].order)))
    /\ IF loc[p].i = Len(loc[p].earnings)
       THEN HookDone(p, loc[p].order, TRUE, "ok")
       ELSE /\ pc' = [pc EXCEPT ![p] = "hookRead"]
            /\ loc' = [loc EXCEPT ![p].i = @ + 1]
            /\ UNCHANGED last
    /\ UNCHANGED <<static, stale, succeeded, processed, hookRuns>>

\* a write of the second pass rejects: createCommissions has no try block and
\* the call ends there
HookThrow(p) ==
    /\ pc[p] \in {"hookSave", "hookTxn"}
    /\ HookDone(p, loc[p].order, FALSE, "fault")
    /\ UNCHANGED <<static, db, stale, succeeded, processed, hookRuns>>

-----------------------------------------------------------------------------
(* processWithdrawal *)

\* a request id that names no request
NoRequest == "w0"

Actions == {"Approve", "Reject", "Hold"}
Remarks == {"duplicate"}

\* adminCommissionController.ts lines 486-508 with the refund made outside the
\* transaction
WithdrawWritesRefundNoSession(id, request, action, remark) ==
    IF action = "Approve"
    THEN <<SaveRequest(id, [status |-> "Approved", processedAt |-> "now"], TRUE)>>
    ELSE IF action = "Reject"
    THEN <<CreditWallet(request.userId, request.amount, "Withdrawal Rejected", id, FALSE),
           SaveRequest(id, [status |-> "Rejected", remarks |-> remark,
                            processedAt |-> "now"], TRUE)>>
    ELSE <<SaveRequest(id, << >>, TRUE)>>

\* the try block with the refund made on approval as well
WithdrawWritesApproveRefunds(id, request, action, remark) ==
    IF action = "Approve"
    THEN <<CreditWallet(request.userId, request.amount, "Withdrawal Approved", id, TRUE),
           SaveRequest(id, [status |-> "Approved", processedAt |-> "now"], TRUE)>>
    ELSE IF action = "Reject"
    THEN <<CreditWallet(request.userId, request.amount, "Withdrawal Rejected", id, TRUE),
           SaveRequest(id, [status |-> "Rejected", remarks |-> remark,
                            processedAt |-> "now"], TRUE)>>
    ELSE <<SaveRequest(id, << >>, TRUE)>>

\* the try block with processedAt stamped whatever the action is
WithdrawWritesStampsAlways(id, request, action, remark) ==
    IF action = "Approve"
    THEN <<SaveRequest(id, [status |-> "Approved", processedAt |-> "now"], TRUE)>>
    ELSE IF action = "Reject"
    THEN <<CreditWallet(request.userId, request.amount, "Withdrawal Rejected", id, TRUE),
           SaveRequest(id, [status |-> "Rejected", remarks |-> remark,
                            processedAt |-> "now"], TRUE)>>
    ELSE <<SaveRequest(id, [processedAt |-> "now"], TRUE)>>

\* adminCommissionController.ts lines 486-508: the writes of the try block;
\* request is the document as findById returned it
WithdrawWrites(id, request, action, remark) ==
    IF action = "Approve"
    THEN <<SaveRequest(id, [status |-> "Approved", processedAt |-> "now"], TRUE)>>
    ELSE IF action = "Reject"
    THEN <<CreditWallet(request.userId, request.amount, "Withdrawal Rejected", id, TRUE),
           SaveRequest(id, [status |-> "Rejected", remarks |-> remark,
                            processedAt |-> "now"], TRUE)>>
    ELSE <<SaveRequest(id, << >>, TRUE)>>

WithdrawAnswer(id, action, ok, msg, before) ==
    [op |-> "withdraw", id |-> id, action |-> action, ok |-> ok, msg |-> msg,
     before |-> before]

\* processWithdrawal without the check of lines 476-480
WithdrawReadNoPendingCheck(p, id, action, remark) ==
    /\ pc[p] = "idle"
    /\ IF id \notin Requests
       THEN /\ last' = WithdrawAnswer(id, action, FALSE, "not_found", None)
            /\ UNCHANGED <<pc, loc>>
       ELSE /\ pc' = [pc EXCEPT ![p] = "wd"]
            /\ loc' = [loc EXCEPT ![p] = [op |-> "withdraw", id |-> id,
                                          action |-> action, remark |-> remark,
                                          request |-> db.requests[id]]]
            /\ UNCHANGED last
    /\ UNCHANGED <<static, db, stale, succeeded, processed, hookRuns>>

\* adminCommissionController.ts lines 469-480: findById and the Pending check,
\* before the transaction starts
WithdrawRead(p, id, action, remark) ==
    /\ pc[p] = "idle"
    /\ IF id \notin Requests
       THEN /\ last' = WithdrawAnswer(id, action, FALSE, "not_found", None)
            /\ UNCHANGED <<pc, loc>>
       ELSE IF db.requests[id].status # "Pending"
       THEN /\ last' = WithdrawAnswer(id, action, FALSE, "already_processed",
                                      db.requests[id].status)
            /\ UNCHANGED <<pc, loc>>
       ELSE /\ pc' = [pc EXCEPT ![p] = "wd"]
            /\ loc' = [loc EXCEPT ![p] = [op |-> "withdraw", id |-> id,
                                          action |-> action, remark |-> remark,
                                          request |-> db.requests[id]]]
            /\ UNCHANGED last
    /\ UNCHANGED <<static, db, stale, succeeded, processed, hookRuns>>

\* adminCommissionController.ts lines 482-524: the transaction
WithdrawTxn(p) ==
    /\ pc[p] = "wd"
    /\ LET id == loc[p].id
           ws == WithdrawWrites(id, loc[p].request, loc[p].action, loc[p].remark)
       IN  \E fault \in BOOLEAN, k \in 0..Len(ws) :
             /\ (~fault => k = Len(ws))
             /\ LET out == RunTransaction(db, ws, FALSE, fault, k)
                IN  /\ db' = out.db
                    /\ last' = WithdrawAnswer(id, loc[p].action, out.ok, out.msg,
                                              db.requests[id].status)
                    /\ processed' = IF out.ok /\ loc[p].action \in {"Approve", "Reject"}
                                    THEN [processed EXCEPT ![id] = Append(@, loc[p].action)]
                                    ELSE processed
                    /\ stale' = Invalidate(p, Changed(db, out.db))
    /\ pc' = [pc EXCEPT ![p] = "idle"]
    /\ loc' = [loc EXCEPT ![p] = NoCall]
    /\ UNCHANGED <<static, succeeded, hookRuns>>

-----------------------------------------------------------------------------
(* Specifications *)

\* the commission engine: distribution, reversal and the Delivered hook, by
\* concurrent requests
Next ==
    \/ \E p \in Procs, o \in Orders \cup {NoOrder} : DistributeStart(p, o)
    \/ \E p \in Procs : DistributeFinish(p)
    \/ \E p \in Procs, o \in Orders : ReverseStart(p, o)
    \/ \E p \in Procs : ReverseFinish(p)

Spec == Init /\ [][Next]_vars

\* the Delivered hook beside distributeCommissions, on two delivered orders that
\* share the seller s2
InitHook ==
    /\ Init
    /\ orders["o1"].items # << >>
    /\ orders["o2"].status = "Delivered"
    /\ settings.isDistanceBased

NextHook ==
    \/ \E p \in Procs, o \in Orders \cup {NoOrder} : DistributeStart(p, o)
    \/ \E p \in Procs : DistributeFinish(p)
    \/ \E p \in Procs, o \in Orders : HookStart(p, o)
    \/ \E p \in Procs : HookRead(p)
    \/ \E p \in Procs : HookSave(p)
    \/ \E p \in Procs : HookTxn(p)
    \/ \E p \in Procs : HookThrow(p)

SpecHook == InitHook /\ [][NextHook]_vars

\* the withdrawal processor, by concurrent requests
NextWithdraw ==
    \/ \E p \in Procs, id \in Requests \cup {NoRequest}, action \in Actions,
          remark \in Remarks : WithdrawRead(p, id, action, remark)
    \/ \E p \in Procs : WithdrawTxn(p)

SpecWithdraw == Init /\ [][NextWithdraw]_vars

\* rate resolution on every assignment of rates to one seller and one product
RateCfgs == {Unset, <<0>>, <<8>>, <<12>>}
SellerRateCfgs == {Unset, <<0>>, <<15>>}

InitRate ==
    /\ sellers \in [Sellers -> [exists : {TRUE}, commissionRate : SellerRateCfgs,
                                commission : SellerRateCfgs]]
    /\ sellers["s2"] = [exists |-> TRUE, commissionRate |-> Unset, commission |-> Unset]
    /\ products \in [Products -> [found : {TRUE}, subSubRate : RateCfgs,
                                  subRate : RateCfgs, catRate : RateCfgs]]
    /\ products["p2"] = [found |-> TRUE, subSubRate |-> Unset, subRate |-> Unset,
                         catRate |-> Unset]
    /\ deliveryBoys = [b \in DeliveryBoys |-> [exists |-> TRUE, commissionRate |-> Unset]]
    /\ orders \in OrderCfgs
    /\ orders["o1"].items # << >>
    /\ orders["o2"].status = "Delivered"
    /\ settings \in SettingsCfgs
    /\ settings.isDistanceBased
    /\ InitStore

\* the rate and the amount each path computes for one item: calculateOrderCommissions
\* (commissionService.ts lines 89-118) and createCommissions (orderService.ts
\* lines 109-176)
ResolveRate(s, x, total) ==
    LET item == Item(s, x, total)
        service == SellerCommissions(<<item>>, 1, << >>)[1]
        hook == FirstPass("o1", <<item>>, 1,
                          [created |-> << >>, earnings |-> << >>]).created[1].rec
    IN  /\ last' = [op |-> "rate", seller |-> s, product |-> x, total |-> total,
                     service |-> [rate |-> service.rate, amount |-> service.amount],
                     hook |-> [rate |-> hook.commissionRate,
                               amount |-> hook.commissionAmount]]
        /\ UNCHANGED <<static, db, pc, loc, stale, succeeded, processed, hookRuns>>

ItemTotals == {1000000, 2500000}

NextRate == \E s \in Sellers, x \in Products, total \in ItemTotals : ResolveRate(s, x, total)

SpecRate == InitRate /\ [][NextRate]_vars

-----------------------------------------------------------------------------
(* Properties *)

AllRefs == Orders \cup Requests \cup {None}

\* Credit amounts minus Debit amounts of the WalletTransactions of subject s
\* whose reference is in refs
RECURSIVE LedgerSum(_, _, _, _)
LedgerSum(txns, s, refs, i) ==
    IF i > Len(txns) THEN 0
    ELSE (IF txns[i].subject = s /\ txns[i].ref \in refs
          THEN (IF txns[i].type = "Credit" THEN txns[i].amount ELSE 0 - txns[i].amount)
          ELSE 0)
         + LedgerSum(txns, s, refs, i + 1)

\* sum of the totals of the items of seller s
RECURSIVE ItemTotal(_, _, _)
ItemTotal(items, s, i) ==
    IF i > Len(items) THEN 0
    ELSE (IF items[i].seller = s THEN items[i].total ELSE 0) + ItemTotal(items, s, i + 1)

\* the step in which the distributeCommissions call of p returns
DistributeReturns(p) == pc[p] = "dist" /\ pc'[p] = "idle"

\* a call that started after a success for its order writes nothing
LaterCallWritesNothing ==
    \A p \in Procs : DistributeReturns(p) /\ loc[p].later => db' = db

C2_RaceOutcome ==
    /\ last.op = "distribute" /\ last.raced /\ last.peer # None
    /\ "fault" \notin {last.peer, last.msg}
    /\ DistributeWrites(last.id) # << >>
    => {last.peer, last.msg} = {"ok", "already_distributed"}

\* C3: a distributeCommissions call in which a step fails after some of its
\* writes returns success = false, and no call that returns success = false
\* leaves a Commission record, a WalletTransaction or a balance changed.
C3_FailedDistributionPersistsNothing ==
    [][\A p \in Procs :
         DistributeReturns(p)
           => /\ last'.written < Len(DistributeWrites(loc[p].order)) => ~last'.ok
              /\ ~last'.ok => db' = db]_vars

\* the credit of the second seller failed, after three writes
C3_Witness ==
    /\ last.op = "distribute" /\ ~last.ok /\ last.msg = "fault"
    /\ last.written = 3
    /\ DistributeWrites(last.id)[4].op = "creditWallet"

\* C4: after a successful distributeCommissions each seller with items in the
\* order has one SELLER Commission and one credit of sale proceeds for the
\* order, and the credited amount plus the commissionAmount is the sum of the
\* totals of the seller's items.
C4_SellerSplit ==
    \A o \in succeeded, s \in Sellers :
        ItemTotal(orders[o].items, s, 1) > 0 =>
            LET recs == {i \in CommissionsOf(db, o) :
                            db.commissions[i].type = "SELLER"
                            /\ db.commissions[i].seller = s}
                credits == {j \in 1..Len(db.txns) :
                               /\ db.txns[j].subject = s /\ db.txns[j].ref = o
                               /\ db.txns[j].type = "Credit"
                               /\ db.txns[j].description = "Sale proceeds"}
            IN  /\ Cardinality(recs) = 1
                /\ Cardinality(credits) = 1
                /\ \A i \in recs, j \in credits :
                       db.txns[j].amount + db.commissions[i].commissionAmount
                           = ItemTotal(orders[o].items, s, 1)

\* a distributed order in which one seller has two items
C4_Witness ==
    \E o \in succeeded, s \in Sellers :
        Cardinality({i \in 1..Len(orders[o].items) : orders[o].items[i].seller = s}) = 2

\* C5: when reverseCommissions has succeeded on a distributed order, what the
\* order has credited to and debited from each seller and delivery partner
\* cancels out, so each balance is back at its value before the distribution,
\* and every Commission of the order is Cancelled.
C5_ReverseRestores ==
    last.op = "reverse" /\ last.ok /\ last.msg = "ok" /\ last.id \in succeeded
        => /\ \A s \in Subjects : LedgerSum(db.txns, s, {last.id}, 1) = 0
           /\ \A i \in CommissionsOf(db, last.id) :
                  db.commissions[i].status = "Cancelled"

\* C6: whenever no Delivered hook stands between its balance save and its
\* WalletTransaction.create, the balance of each seller and delivery partner is
\* the sum of its Credit amounts minus the sum of its Debit amounts.
C6_BalanceIsLedger ==
    (\A p \in Procs : pc[p] # "hookTxn")
        => \A s \in Subjects : db.balance[s] = LedgerSum(db.txns, s, AllRefs, 1)

\* C7: of the processWithdrawal calls with action Approve on one request at
\* most one reports success, and the one that does found the stored request
\* Pending when its transaction ran.
C7_ApprovedOnce ==
    /\ \A w \in Requests :
          Cardinality({i \in DOMAIN processed[w] : processed[w][i] = "Approve"}) <= 1
    /\ last.op = "withdraw" /\ last.action = "Approve" /\ last.ok
          => last.before = "Pending"

\* C8: a withdrawal request is refunded at most once, and a request that was
\* refunded is never Approved.
C8_RefundedOnce ==
    \A w \in Requests :
        LET refunds == {j \in 1..Len(db.txns) :
                           /\ db.txns[j].ref = w /\ db.txns[j].type = "Credit"
                           /\ db.txns[j].description = "Withdrawal Rejected"}
        IN  /\ Cardinality(refunds) <= 1
            /\ ~(refunds # {} /\ db.requests[w].status = "Approved")

\* C9: the transaction of a Reject on a request stored as Pending either adds
\* the request amount to the requester's balance, appends one Credit
\* WalletTransaction of that amount and stores the request as Rejected with the
\* remark and processedAt, or, when a step of it fails, changes nothing.
C9_RejectIsAtomic ==
    [][\A p \in Procs :
         /\ pc[p] = "wd" /\ pc'[p] = "idle" /\ loc[p].action = "Reject"
         /\ db.requests[loc[p].id].status = "Pending"
         => LET w == loc[p].id
                r == db.requests[w]
            IN  IF last'.ok
                THEN /\ db'.balance = [db.balance EXCEPT ![r.userId] = @ + r.amount]
                     /\ db'.txns = Append(db.txns,
                            WalletTransaction(r.userId, "Credit", r.amount,
                                              "Withdrawal Rejected", w))
                     /\ db'.requests = [db.requests EXCEPT
                                           ![w].status = "Rejected",
                                           ![w].remarks = loc[p].remark,
                                           ![w].processedAt = "now"]
                     /\ db'.commissions = db.commissions
                ELSE db' = db]_vars

\* a Reject of the Pending request went through
C9_Witness ==
    /\ last.op = "withdraw" /\ last.action = "Reject" /\ last.before = "Pending"
    /\ last.ok
    /\ db.requests[last.id].status = "Rejected"
    /\ db.requests[last.id].remarks \in Remarks
    /\ db.balance[db.requests[last.id].userId] = db.requests[last.id].amount

\* C10: the seller rate of an item is the first positive rate among the
\* product's sub-sub-category, sub-category and category and the seller's own
\* rate, and 10 when none is positive, on the path of distributeCommissions and
\* on the path of the Delivered hook.
C10_FirstPositiveRate ==
    last.op = "rate" =>
        LET x == products[last.product]
            Claimed(own) ==
                LET chain == <<x.subSubRate, x.subRate, x.catRate, own>>
                    pos == {i \in 1..4 : IsSet(chain[i]) /\ chain[i][1] > 0}
                IN  IF pos = {} THEN 10
                    ELSE chain[CHOOSE i \in pos : \A j \in pos : i <= j][1]
        IN  /\ last.service.rate = Claimed(sellers[last.seller].commissionRate)
            /\ last.hook.rate = Claimed(sellers[last.seller].commission)

\* C11: for every item and every assignment of rates, calculateOrderCommissions
\* and the Delivered hook compute the same seller commission rate and the same
\* commission amount.
C11_PathsAgree ==
    last.op = "rate" =>
        /\ last.service.rate = last.hook.rate
        /\ last.service.amount = last.hook.amount

\* C12: for a seller whose own rate is 0 and whose product has no positive
\* category-level rate, each path applies the default 10, never 0.
C12_ZeroMeansUnset ==
    last.op = "rate" =>
        LET x == products[last.product]
            noCategoryRate == ~Positive(x.subSubRate) /\ ~Positive(x.subRate)
                              /\ ~Positive(x.catRate)
        IN  /\ noCategoryRate /\ sellers[last.seller].commissionRate = <<0>>
               => last.service.rate = 10
            /\ noCategoryRate /\ sellers[last.seller].commission = <<0>>
               => last.hook.rate = 10

-----------------------------------------------------------------------------
(* updateCommissionRates and the rates computed after it *)

BodyRates == {Unset, <<0 - 1>>, <<0>>, <<20>>, <<101>>}
BodyAmounts == {Unset, <<0 - 1>>, <<500000>>}
Bodies ==
    [sellerCommissionRate : BodyRates, deliveryBoyCommissionRate : BodyRates,
     minimumWithdrawalAmount : BodyAmounts]

\* updateCommissionRates saving each field as soon as it is validated
updateCommissionRatesSavesEachField(s, body) ==
    LET bad(x) == IsSet(x) /\ (x[1] < 0 \/ x[1] > 100)
        set(old, x) == IF IsSet(x) THEN x ELSE old
        s1 == [s EXCEPT !.sellerCommissionRate = set(@, body.sellerCommissionRate)]
        s2 == [s1 EXCEPT !.deliveryBoyCommissionRate =
                             set(@, body.deliveryBoyCommissionRate)]
    IN  IF bad(body.sellerCommissionRate)
        THEN [ok |-> FALSE, msg |-> "seller_rate_range", settings |-> s]
        ELSE IF bad(body.deliveryBoyCommissionRate)
        THEN [ok |-> FALSE, msg |-> "delivery_rate_range", settings |-> s1]
        ELSE IF IsSet(body.minimumWithdrawalAmount) /\ body.minimumWithdrawalAmount[1] < 0
        THEN [ok |-> FALSE, msg |-> "minimum_negative", settings |-> s2]
        ELSE [ok |-> TRUE, msg |-> "ok",
              settings |->
                  [s2 EXCEPT
                     !.minimumWithdrawalAmount = set(@, body.minimumWithdrawalAmount)]]

\* adminCommissionController.ts lines 21-51: the fields are validated and set
\* one after the other on the document in memory; the first invalid one
\* answers 400 before settings.save() is reached
updateCommissionRates(s, body) ==
    LET bad(x) == IsSet(x) /\ (x[1] < 0 \/ x[1] > 100)
        set(old, x) == IF IsSet(x) THEN x ELSE old
    IN  IF bad(body.sellerCommissionRate)
        THEN [ok |-> FALSE, msg |-> "seller_rate_range", settings |-> s]
        ELSE IF bad(body.deliveryBoyCommissionRate)
        THEN [ok |-> FALSE, msg |-> "delivery_rate_range", settings |-> s]
        ELSE IF IsSet(body.minimumWithdrawalAmount) /\ body.minimumWithdrawalAmount[1] < 0
        THEN [ok |-> FALSE, msg |-> "minimum_negative", settings |-> s]
        ELSE [ok |-> TRUE, msg |-> "ok",
              settings |->
                  [s EXCEPT
                     !.sellerCommissionRate = set(@, body.sellerCommissionRate),
                     !.deliveryBoyCommissionRate = set(@, body.deliveryBoyCommissionRate),
                     !.minimumWithdrawalAmount = set(@, body.minimumWithdrawalAmount)]]

\* one request to updateCommissionRates; settings.save() may reject (catch,
\* lines 62-68)
UpdateCommissionRates(body) ==
    \E fault \in BOOLEAN :
        LET out == updateCommissionRates(settings, body)
        IN  /\ settings' = IF fault THEN settings ELSE out.settings
            /\ last' = [op |-> "updateCommissionRates", body |-> body,
                        ok |-> out.ok /\ ~fault,
                        msg |-> IF out.ok /\ fault THEN "fault" ELSE out.msg]
            /\ UNCHANGED <<sellers, deliveryBoys, products, orders, db, pc, loc, stale,
                           succeeded, processed, hookRuns>>

\* the delivery commission calculateOrderCommissions computes for an order
\* (commissionService.ts lines 121-159)
ResolveDeliveryRate(o) ==
    /\ last' = [op |-> "deliveryRate", order |-> o,
                delivery |-> DeliveryCommission(orders[o])]
    /\ UNCHANGED <<static, db, pc, loc, stale, succeeded, processed, hookRuns>>

NextSettings ==
    \/ \E body \in Bodies : UpdateCommissionRates(body)
    \/ \E s \in Sellers, x \in Products, total \in ItemTotals : ResolveRate(s, x, total)
    \/ \E o \in Orders : ResolveDeliveryRate(o)

SpecSettings == Init /\ [][NextSettings]_vars

\* C13: once updateCommissionRates has stored a global seller rate r (delivery
\* rate d), a commission computed for a seller (delivery partner) with no rate
\* of its own and no category rate uses r (d).
C13_GlobalRateUsed ==
    /\ last.op = "rate" /\ Positive(settings.sellerCommissionRate)
       /\ ~IsSet(sellers[last.seller].commissionRate)
       /\ ~Positive(sellers[last.seller].commission)
       /\ ~Positive(products[last.product].subSubRate)
       /\ ~Positive(products[last.product].subRate)
       /\ ~Positive(products[last.product].catRate)
       => /\ last.service.rate = settings.sellerCommissionRate[1]
          /\ last.hook.rate = settings.sellerCommissionRate[1]
    /\ last.op = "deliveryRate" /\ Positive(settings.deliveryBoyCommissionRate)
       /\ last.delivery # << >>
       /\ ~settings.isDistanceBased
       /\ ~IsSet(deliveryBoys[orders[last.order].deliveryBoy].commissionRate)
       => last.delivery[1].rate = settings.deliveryBoyCommissionRate[1]

-----------------------------------------------------------------------------
(* The Delivered hook invoked more than once *)

\* both orders delivered, o1 with items of two sellers and a delivery partner
InitRetry ==
    /\ InitHook
    /\ orders["o1"].deliveryBoy # None

NextRetry ==
    \/ \E p \in Procs, o \in Orders : HookStart(p, o)
    \/ \E p \in Procs, o \in Orders : HookRetry(p, o)
    \/ \E p \in Procs : HookRead(p)
    \/ \E p \in Procs : HookSave(p)
    \/ \E p \in Procs : HookTxn(p)
    \/ \E p \in Procs : HookThrow(p)

SpecRetry == InitRetry /\ [][NextRetry]_vars

\* what one run of the hook for order o earns seller s
HookEarning(o, s) ==
    LET e == FirstPass(o, orders[o].items, 1,
                       [created |-> << >>, earnings |-> << >>]).earnings
        i == MapIndex(e, s, 1)
    IN  IF i = 0 THEN 0 ELSE e[i].netEarning

RECURSIVE HookEarnings(_, _)
HookEarnings(os, s) ==
    IF os = {} THEN 0
    ELSE LET o == CHOOSE x \in os : TRUE
         IN  HookEarning(o, s) + HookEarnings(os \ {o}, s)

\* C14: however often processOrderStatusTransition is invoked with Delivered
\* for an order, the order has no more Commission records than one run
\* creates, and no seller's balance has been raised by more than one run's
\* earnings per order.
C14_HookOncePerOrder ==
    /\ \A o \in Orders :
          Cardinality(CommissionsOf(db, o))
              <= Len(FirstPass(o, orders[o].items, 1,
                               [created |-> << >>, earnings |-> << >>]).created)
    /\ \A s \in Sellers : db.balance[s] <= HookEarnings(Orders, s)

\* C15: whatever the order of distributeCommissions and the Delivered hook on
\* an order, the order never has both the hook's per-item Commission records
\* and the distribution's per-seller records, and no seller has more than one
\* credit for the order.
C15_OneSetPerOrder ==
    \A o \in Orders :
        /\ ~(\E i, j \in CommissionsOf(db, o) :
                db.commissions[i].type = None /\ db.commissions[j].type # None)
        /\ \A s \in Sellers :
              Cardinality({j \in 1..Len(db.txns) :
                              /\ db.txns[j].subject = s /\ db.txns[j].ref = o
                              /\ db.txns[j].type = "Credit"}) <= 1

-----------------------------------------------------------------------------
(* processOrderStatusTransition for the statuses other than Delivered *)

Max(a, b) == IF a >= b THEN a ELSE b

\* orderService.ts lines 57-69
RECURSIVE reserveInventory(_, _, _)
reserveInventory(d, items, i) ==
    IF i > Len(items) THEN d
    ELSE LET x == items[i].product
             reservedStock == d.inventory[x].reservedStock + items[i].quantity
         IN  reserveInventory(
                 [d EXCEPT !.inventory[x].reservedStock = reservedStock,
                           !.inventory[x].availableStock =
                               Max(0, d.inventory[x].currentStock - reservedStock)],
                 items, i + 1)

\* orderService.ts lines 74-87
RECURSIVE restoreInventory(_, _, _)
restoreInventory(d, items, i) ==
    IF i > Len(items) THEN d
    ELSE LET x == items[i].product
             reservedStock == Max(0, d.inventory[x].reservedStock - items[i].quantity)
         IN  restoreInventory(
                 [d EXCEPT !.inventory[x].reservedStock = reservedStock,
                           !.inventory[x].availableStock =
                               d.inventory[x].currentStock - reservedStock],
                 items, i + 1)

NewStatuses == {"Processed", "Cancelled", "Returned"}
PreviousStatuses == {"Processed", "Delivered"}

\* orderService.ts lines 15-52, every case but Delivered: the order is read,
\* Cancelled after Processed or Shipped restores the inventory, Processed
\* reserves it, every other status does nothing
StatusTransition(p, o, newStatus, previousStatus) ==
    /\ pc[p] = "idle"
    /\ IF o \notin Orders
       THEN /\ last' = [op |-> "transition", id |-> o, newStatus |-> newStatus,
                        previousStatus |-> previousStatus, ok |-> FALSE,
                        msg |-> "not_found"]
            /\ db' = db
       ELSE /\ newStatus = "Processed"
               => \A x \in Products : db.inventory[x].reservedStock < MaxReserved
            /\ db' = IF newStatus = "Cancelled"
                        /\ previousStatus \in {"Processed", "Shipped"}
                     THEN restoreInventory(db, orders[o].items, 1)
                     ELSE IF newStatus = "Processed"
                     THEN reserveInventory(db, orders[o].items, 1)
                     ELSE db
            /\ last' = [op |-> "transition", id |-> o, newStatus |-> newStatus,
                        previousStatus |-> previousStatus, ok |-> TRUE, msg |-> "ok"]
    /\ UNCHANGED <<static, pc, loc, stale, succeeded, processed, hookRuns>>

InitTransition ==
    /\ Init
    /\ orders["o1"].items # << >>
    /\ orders["o2"].status # "Delivered"
    /\ settings.isDistanceBased

NextTransition ==
    \/ \E p \in Procs, o \in Orders : DistributeStart(p, o)
    \/ \E p \in Procs : DistributeFinish(p)
    \/ \E p \in Procs, o \in Orders \cup {NoOrder}, newStatus \in NewStatuses,
          previousStatus \in PreviousStatuses :
          StatusTransition(p, o, newStatus, previousStatus)

SpecTransition == InitTransition /\ [][NextTransition]_vars

\* C16: when processOrderStatusTransition has moved an order to Cancelled or
\* Returned and no distribution is under way, none of the order's commissions
\* is Paid.
C16_TransitionReverses ==
    /\ last.op = "transition" /\ last.ok
    /\ last.newStatus \in {"Cancelled", "Returned"}
    /\ \A p \in Procs : pc[p] = "idle"
    => \A i \in CommissionsOf(db, last.id) : db.commissions[i].status # "Paid"

-----------------------------------------------------------------------------
(* Guards and atomicity of distributeCommissions and reverseCommissions *)

\* C17: a distributeCommissions call on an order that does not exist or is not
\* Delivered returns success = false, as not found or as not in a valid state,
\* and the order has no Commission record and no wallet credit.
C17_GuardedDistribution ==
    /\ last.op = "distribute"
    /\ (last.id \notin Orders \/ orders[last.id].status # "Delivered")
    => /\ ~last.ok
       /\ last.msg = (IF last.id \notin Orders THEN "not_found" ELSE "invalid_state")
       /\ CommissionsOf(db, last.id) = {}
       /\ \A j \in 1..Len(db.txns) : db.txns[j].ref # last.id

\* an order that is out for delivery was refused
C17_Witness ==
    /\ last.op = "distribute" /\ last.msg = "invalid_state"
    /\ last.id \in Orders /\ orders[last.id].items # << >>

\* the step in which the reverseCommissions call of p returns
ReverseReturns(p) == pc[p] = "rev" /\ pc'[p] = "idle"

\* sum of the commissionAmount of the commissions ids whose subject is s
RECURSIVE CommissionSum(_, _, _)
CommissionSum(d, ids, s) ==
    IF ids = {} THEN 0
    ELSE LET i == CHOOSE x \in ids : TRUE
             c == d.commissions[i]
         IN  (IF s = (IF c.type = "SELLER" THEN c.seller ELSE c.deliveryBoy)
              THEN c.commissionAmount ELSE 0)
             + CommissionSum(d, ids \ {i}, s)

\* C18: a reverseCommissions call that succeeds has set every Paid Commission
\* of the order to Cancelled, left the others as they were, debited each
\* subject by the commissionAmount of its Paid commissions with one
\* WalletTransaction each; a call that fails has changed no commission and no
\* balance.
C18_ReverseIsAtomic ==
    [][\A p \in Procs :
         ReverseReturns(p) =>
            LET o == loc[p].order
                paid == {i \in CommissionsOf(db, o) : db.commissions[i].status = "Paid"}
            IN  IF last'.ok
                THEN /\ Len(db'.commissions) = Len(db.commissions)
                     /\ \A i \in 1..Len(db.commissions) :
                           db'.commissions[i] =
                               IF i \in paid
                               THEN [db.commissions[i] EXCEPT !.status = "Cancelled"]
                               ELSE db.commissions[i]
                     /\ \A s \in Subjects :
                           db'.balance[s] = db.balance[s] - CommissionSum(db, paid, s)
                     /\ Len(db'.txns) = Len(db.txns) + Cardinality(paid)
                     /\ \A j \in Len(db.txns) + 1..Len(db'.txns) :
                           db'.txns[j].type = "Debit" /\ db'.txns[j].ref = o
                ELSE db' = db]_vars

\* a reversal went through on an order with three Paid commissions
C18_Witness ==
    /\ last.op = "reverse" /\ last.ok /\ last.msg = "ok"
    /\ Cardinality({i \in CommissionsOf(db, last.id) :
                       db.commissions[i].status = "Cancelled"}) = 3
    /\ \E j \in 1..Len(db.txns) :
          db.txns[j].type = "Debit" /\ db.txns[j].ref = last.id

\* C19: reverseCommissions on an order without Commission records returns
\* success and changes nothing; a call on an order none of whose commissions is
\* Paid, as after a successful reversal, changes nothing either and returns
\* success unless the store fails.
C19_ReverseIdempotent ==
    /\ [](last.op = "reverse" /\ last.msg = "nothing" => last.ok)
    /\ [][/\ last'.op = "reverse" /\ last'.msg = "nothing" /\ last' # last
             => db' = db /\ CommissionsOf(db, last'.id) = {}
          /\ \A p \in Procs :
                /\ ReverseReturns(p) /\ ~stale[p]
                /\ \A i \in CommissionsOf(db, loc[p].order) :
                      db.commissions[i].status # "Paid"
                => /\ db' = db
                   /\ last'.msg # "fault" => last'.ok]_vars

\* after a successful reversal of a distributed order, a second call for the
\* order has found no Paid commission and is about to return
C19_Witness ==
    /\ last.op = "reverse" /\ last.ok /\ last.msg = "ok" /\ last.id \in succeeded
    /\ \A i \in CommissionsOf(db, last.id) : db.commissions[i].status = "Cancelled"
    /\ \E p \in Procs :
          pc[p] = "rev" /\ loc[p].order = last.id /\ loc[p].paid = {} /\ ~stale[p]

-----------------------------------------------------------------------------
\* Balances under distribution, reversal and withdrawal processing

\* a seller whose own rate takes more than half of the sale: the commission
\* that a reversal debits is larger than the proceeds the distribution credited
InitFunds ==
    /\ sellers = [s \in Sellers |->
                    IF s = "s1"
                    THEN [exists |-> TRUE, commissionRate |-> <<60>>, commission |-> <<60>>]
                    ELSE [exists |-> TRUE, commissionRate |-> Unset, commission |-> <<0>>]]
    /\ deliveryBoys = [b \in DeliveryBoys |-> [exists |-> TRUE, commissionRate |-> Unset]]
    /\ products = [x \in Products |->
                     [found |-> TRUE, subSubRate |-> Unset, subRate |-> Unset,
                      catRate |-> Unset]]
    /\ orders \in OrderCfgs
    /\ orders["o1"].items # << >>
    /\ orders["o2"].status # "Delivered"
    /\ settings \in SettingsCfgs
    /\ settings.isDistanceBased
    /\ InitStore

NextFunds ==
    \/ \E p \in Procs, o \in Orders : DistributeStart(p, o)
    \/ \E p \in Procs : DistributeFinish(p)
    \/ \E p \in Procs, o \in Orders : ReverseStart(p, o)
    \/ \E p \in Procs : ReverseFinish(p)
    \/ \E p \in Procs, id \in Requests, action \in Actions, remark \in Remarks :
          WithdrawRead(p, id, action, remark)
    \/ \E p \in Procs : WithdrawTxn(p)

SpecFunds == InitFunds /\ [][NextFunds]_vars

\* C20: no balance is ever below zero under distribution, reversal and
\* withdrawal processing; a reverseCommissions call whose debits for some
\* subject exceed that subject's balance fails (with InsufficientFunds when
\* nothing else made it fail first) and leaves every commission, balance and
\* wallet transaction as it was.
C20_BalanceNeverNegative ==
    /\ [](\A s \in Subjects : db.balance[s] >= 0)
    /\ [][\A p \in Procs :
            LET o == loc[p].order
                paid == {i \in CommissionsOf(db, o) : db.commissions[i].status = "Paid"}
            IN  /\ ReverseReturns(p)
                /\ \E s \in Subjects : CommissionSum(db, paid, s) > db.balance[s]
                => /\ ~last'.ok
                   /\ db' = db
                   /\ ~stale[p] => last'.msg \in {"insufficient_funds", "fault"}]_vars

\* a reversal was refused for insufficient funds: the order's commissions are
\* still Paid and the seller's balance is smaller than the commission
C20_Witness ==
    /\ last.op = "reverse" /\ ~last.ok /\ last.msg = "insufficient_funds"
    /\ CommissionsOf(db, last.id) # {}
    /\ \A i \in CommissionsOf(db, last.id) : db.commissions[i].status = "Paid"
    /\ \E i \in CommissionsOf(db, last.id) :
          /\ db.commissions[i].type = "SELLER"
          /\ db.commissions[i].commissionAmount > db.balance[db.commissions[i].seller]

-----------------------------------------------------------------------------
(* The delivery commission and the lookups that may find nothing *)

KmRateCfgs == {Unset, <<0>>, <<10>>}
DistanceCfgs == {Unset, <<0>>, <<0 - 75000>>, <<75000>>, <<12345>>}
SubtotalCfgs == {1000000, 1011000}
DeliveryRateCfgs == {Unset, <<0>>, <<7>>}

\* every deliveryConfig, read or not, against an order with a delivery boy
\* whose document may be missing; the seller s1 may be missing too
InitLookup ==
    /\ sellers \in [Sellers -> [exists : BOOLEAN, commissionRate : {<<15>>},
                                commission : {<<15>>}]]
    /\ sellers["s2"].exists
    /\ deliveryBoys \in [DeliveryBoys -> [exists : BOOLEAN,
                                          commissionRate : DeliveryRateCfgs]]
    /\ \A b \in DeliveryBoys : ~deliveryBoys[b].exists => deliveryBoys[b].commissionRate = Unset
    /\ products = [x \in Products |->
                     [found |-> TRUE, subSubRate |-> Unset, subRate |-> Unset,
                      catRate |-> Unset]]
    /\ \E subtotal \in SubtotalCfgs, distance \in DistanceCfgs :
          orders = [o1 |-> [status |-> "Delivered",
                            items |-> <<Item("s1", "p1", 1000000)>>,
                            deliveryBoy |-> "d1", subtotal |-> subtotal,
                            deliveryDistanceKm |-> distance],
                    o2 |-> [status |-> "Delivered",
                            items |-> <<Item("s2", "p1", 1000000)>>,
                            deliveryBoy |-> None, subtotal |-> 1000000,
                            deliveryDistanceKm |-> Unset]]
    /\ settings \in [readable : BOOLEAN, isDistanceBased : BOOLEAN,
                     deliveryBoyKmRate : KmRateCfgs, sellerCommissionRate : {Unset},
                     deliveryBoyCommissionRate : {Unset},
                     minimumWithdrawalAmount : {Unset}]
    /\ InitStore

\* what each path computes for the one item of an order: the Map entries of
\* calculateOrderCommissions (commissionService.ts lines 89-118) and the
\* Commission.create calls of createCommissions (orderService.ts lines 103-176)
ComputeItem(o) ==
    LET service == SellerCommissions(orders[o].items, 1, << >>)
        hook == FirstPass(o, orders[o].items, 1,
                          [created |-> << >>, earnings |-> << >>]).created
    IN  /\ last' = [op |-> "item", order |-> o, service |-> service,
                     hook |-> [i \in 1..Len(hook) |-> hook[i].rec]]
        /\ UNCHANGED <<static, db, pc, loc, stale, succeeded, processed, hookRuns>>

NextLookup ==
    \/ \E o \in Orders : ResolveDeliveryRate(o)
    \/ \E o \in Orders : ComputeItem(o)

SpecLookup == InitLookup /\ [][NextLookup]_vars

C22_DeliveryRateTwoTier ==
    /\ last.op = "deliveryRate"
    /\ orders[last.order].deliveryBoy # None
    /\ ~settings.isDistanceBased
    => LET deliveryBoy == deliveryBoys[orders[last.order].deliveryBoy]
           own == deliveryBoy.commissionRate
       IN  last.delivery[1].rate =
               IF deliveryBoy.exists /\ own # Unset /\ own[1] > 0 THEN own[1] ELSE 5

\* C23: when the seller of an item is not found, both paths still compute the
\* item's commission, calculateOrderCommissions at the default 10%; when the
\* delivery partner is not found, the percentage delivery commission is
\* computed at the default 5%.
C23_MissingRecordFailsSoft ==
    /\ last.op = "item" =>
          LET item == orders[last.order].items[1]
          IN  /\ Len(last.service) = 1
              /\ Len(last.hook) = 1
              /\ ~sellers[item.seller].exists =>
                    /\ last.service[1].rate = 10
                    /\ 100 * last.service[1].amount = item.total * 10
                    /\ 100 * last.hook[1].commissionAmount =
                           item.total * last.hook[1].commissionRate
    /\ /\ last.op = "deliveryRate"
       /\ orders[last.order].deliveryBoy # None
       /\ ~deliveryBoys[orders[last.order].deliveryBoy].exists
       => /\ Len(last.delivery) = 1
          /\ ~settings.isDistanceBased =>
                /\ last.delivery[1].rate = 5
                /\ 100 * last.delivery[1].amount \in
                       (orders[last.order].subtotal * 5 - 5000)..
                       (orders[last.order].subtotal * 5 + 5000)

-----------------------------------------------------------------------------
(* Completing a withdrawal: the admin page and the endpoint behind it *)

\* what the admin may type as the transaction reference
References == {"", "utr1"}

\* the endpoint without the check of the request's status
completeWithdrawalAnyStatus(d, id, transactionReference) ==
    IF id \notin Requests THEN [ok |-> FALSE, msg |-> "not_found", db |-> d]
    ELSE IF transactionReference = ""
    THEN [ok |-> FALSE, msg |-> "missing_reference", db |-> d]
    ELSE [ok |-> TRUE, msg |-> "ok",
          db |-> [d EXCEPT !.requests[id] =
                     Merge(@, [status |-> "Completed",
                               transactionReference |-> transactionReference])]]

\* PUT /admin/withdrawals/:id/complete: the request must be Approved and the
\* reference given; then the reference is recorded and the status is Completed
completeWithdrawal(d, id, transactionReference) ==
    IF id \notin Requests THEN [ok |-> FALSE, msg |-> "not_found", db |-> d]
    ELSE IF d.requests[id].status # "Approved"
    THEN [ok |-> FALSE, msg |-> "invalid_state", db |-> d]
    ELSE IF transactionReference = ""
    THEN [ok |-> FALSE, msg |-> "missing_reference", db |-> d]
    ELSE [ok |-> TRUE, msg |-> "ok",
          db |-> [d EXCEPT !.requests[id] =
                     Merge(@, [status |-> "Completed",
                               transactionReference |-> transactionReference])]]

CompleteAnswer(id, transactionReference, ok, msg, sent) ==
    [op |-> "complete", id |-> id, ref |-> transactionReference, ok |-> ok,
     msg |-> msg, sent |-> sent]

\* a client that calls the endpoint
CompleteWithdrawal(id, transactionReference) ==
    /\ LET out == completeWithdrawal(db, id, transactionReference)
       IN  /\ db' = out.db
           /\ last' = CompleteAnswer(id, transactionReference, out.ok, out.msg, TRUE)
    /\ UNCHANGED <<static, pc, loc, stale, succeeded, processed, hookRuns>>

\* AdminCommissionSettings.tsx handleComplete, lines 244-265: without a selected
\* withdrawal or a reference nothing is sent; the page offers the selection
\* of a withdrawal it has listed as Approved (lines 378-389)
HandleComplete(selectedWithdrawal, transactionRef) ==
    /\ selectedWithdrawal \in Requests
    /\ db.requests[selectedWithdrawal].status = "Approved"
    /\ IF transactionRef = ""
       THEN /\ last' = CompleteAnswer(selectedWithdrawal, transactionRef, FALSE,
                                      "missing_reference", FALSE)
            /\ UNCHANGED db
       ELSE LET out == completeWithdrawal(db, selectedWithdrawal, transactionRef)
            IN  /\ db' = out.db
                /\ last' = CompleteAnswer(selectedWithdrawal, transactionRef, out.ok,
                                          out.msg, TRUE)
    /\ UNCHANGED <<static, pc, loc, stale, succeeded, processed, hookRuns>>

\* the withdrawal processor and the completion, by concurrent requests
NextComplete ==
    \/ \E p \in Procs, id \in Requests \cup {NoRequest}, action \in Actions,
          remark \in Remarks : WithdrawRead(p, id, action, remark)
    \/ \E p \in Procs : WithdrawTxn(p)
    \/ \E id \in Requests \cup {NoRequest}, ref \in References : CompleteWithdrawal(id, ref)
    \/ \E id \in Requests, ref \in References : HandleComplete(id, ref)

SpecComplete == Init /\ [][NextComplete]_vars

\* C24: a processWithdrawal call that finds the request in a status other than
\* Pending (Approved, Rejected or Completed) never enters the transaction: it
\* is answered "already processed" and the requests, the balances and the
\* WalletTransactions stay as they were.
C24_NonPendingRefused ==
    [][/\ \A p \in Procs :
             pc[p] = "idle" /\ pc'[p] = "wd"
             => db.requests[loc'[p].id].status = "Pending"
       /\ \A id \in Requests :
             /\ db.requests[id].status # "Pending"
             /\ pc' = pc /\ last' # last
             /\ last'.op = "withdraw" /\ last'.id = id
             => /\ ~last'.ok /\ last'.msg = "already_processed"
                /\ db' = db]_vars

\* a second Reject of a request that was rejected and refunded once was refused
C24_Witness ==
    /\ last.op = "withdraw" /\ last.action = "Reject" /\ ~last.ok
    /\ last.msg = "already_processed" /\ last.before = "Rejected"
    /\ processed[last.id] = <<"Reject">>
    /\ db.balance[db.requests[last.id].userId] = db.requests[last.id].amount

\* C25: a processWithdrawal call that approves a request which is Pending sets
\* its status to Approved and stamps processedAt, and leaves its other fields,
\* every balance and the WalletTransactions as they were.
C25_ApproveMovesNoMoney ==
    [][\A p \in Procs :
         /\ pc[p] = "wd" /\ pc'[p] = "idle"
         /\ loc[p].action = "Approve"
         /\ db.requests[loc[p].id].status = "Pending"
         /\ last'.ok
         => /\ db'.requests[loc[p].id] =
                  [db.requests[loc[p].id] EXCEPT !.status = "Approved",
                                                 !.processedAt = "now"]
            /\ db'.balance = db.balance
            /\ db'.txns = db.txns
            /\ db'.commissions = db.commissions]_vars

\* a Pending request was approved
C25_Witness ==
    /\ last.op = "withdraw" /\ last.action = "Approve" /\ last.ok
    /\ last.before = "Pending"
    /\ db.requests[last.id].status = "Approved"
    /\ db.requests[last.id].processedAt = "now"

\* C26: a request becomes Completed only from Approved, and a Completed
\* request carries a non-empty transaction reference; a completion without a
\* reference fails as a missing reference and a completion of a request that
\* is Pending, Rejected or already Completed fails, and both leave every
\* request as it was.
C26_CompletedOnlyFromApproved ==
    /\ [](\A id \in Requests :
             db.requests[id].status = "Completed"
             => db.requests[id].transactionReference \notin {None, ""})
    /\ [][\A id \in Requests :
             /\ db'.requests[id].status = "Completed" /\ db.requests[id].status # "Completed"
                => db.requests[id].status = "Approved"
             /\ /\ last' # last /\ last'.op = "complete" /\ last'.id = id
                /\ last'.ref = "" \/ db.requests[id].status # "Approved"
                => /\ ~last'.ok
                   /\ db' = db
                   /\ db.requests[id].status = "Approved" => last'.msg = "missing_reference"]_vars

\* an Approved request was completed with the reference utr1
C26_Witness ==
    /\ last.op = "complete" /\ last.ok /\ last.ref = "utr1"
    /\ db.requests[last.id].status = "Completed"
    /\ db.requests[last.id].transactionReference = "utr1"
    /\ processed[last.id] = <<"Approve">>

\* C27: an updateCommissionRates request with a sellerCommissionRate or a
\* deliveryBoyCommissionRate outside 0..100, or a negative
\* minimumWithdrawalAmount, is answered with a failure and the stored settings
\* keep every value they had, those of the request's valid fields included.
C27_RejectedUpdateKeepsSettings ==
    [][LET body == last'.body
           outside(x) == x # Unset /\ (x[1] < 0 \/ x[1] > 100)
       IN  /\ last'.op = "updateCommissionRates"
           /\ \/ outside(body.sellerCommissionRate)
              \/ outside(body.deliveryBoyCommissionRate)
              \/ body.minimumWithdrawalAmount # Unset /\ body.minimumWithdrawalAmount[1] < 0
           => /\ ~last'.ok
              /\ last'.msg \in {"seller_rate_range", "delivery_rate_range",
                                "minimum_negative"}
              /\ settings' = settings]_vars

\* a request with a valid seller rate 20 and a delivery rate 101 was refused
\* and the stored seller rate is not 20
C27_Witness ==
    /\ last.op = "updateCommissionRates" /\ ~last.ok
    /\ last.msg = "delivery_rate_range"
    /\ last.body.sellerCommissionRate = <<20>>
    /\ last.body.deliveryBoyCommissionRate = <<101>>
    /\ settings.sellerCommissionRate # <<20>>

-----------------------------------------------------------------------------
(* getCommissionSettings after updateCommissionRates *)

\* x || d on a stored number that may be undefined
OrDefault(x, d) == IF IsSet(x) /\ x[1] # 0 THEN x[1] ELSE d

\* adminCommissionController.ts lines 190-197: the data of the answer
getCommissionSettings(s) ==
    [sellerCommissionRate |-> OrDefault(s.sellerCommissionRate, 10),
     deliveryBoyCommissionRate |-> OrDefault(s.deliveryBoyCommissionRate, 5),
     minimumWithdrawalAmount |-> OrDefault(s.minimumWithdrawalAmount, 100 * 10000)]

\* one request to getCommissionSettings; AppSettings.findOne() may reject
\* (catch, lines 198-204)
GetCommissionSettings ==
    \E fault \in BOOLEAN :
        /\ last' = IF fault THEN [op |-> "getCommissionSettings", ok |-> FALSE]
                   ELSE [op |-> "getCommissionSettings", ok |-> TRUE,
                         data |-> getCommissionSettings(settings)]
        /\ UNCHANGED <<static, db, pc, loc, stale, succeeded, processed, hookRuns>>

NextRoundTrip ==
    \/ \E body \in Bodies : UpdateCommissionRates(body)
    \/ GetCommissionSettings

SpecRoundTrip == Init /\ [][NextRoundTrip]_vars

\* C28: getCommissionSettings returns, for each of sellerCommissionRate,
\* deliveryBoyCommissionRate and minimumWithdrawalAmount, the value the last
\* successful updateCommissionRates stored (0 included), and 10, 5 and 100 for
\* the fields that were never stored.
C28_SettingsRoundTrip ==
    last.op = "getCommissionSettings" /\ last.ok =>
        LET stored(x, d) == IF x = Unset THEN d ELSE x[1]
        IN  /\ last.data.sellerCommissionRate = stored(settings.sellerCommissionRate, 10)
            /\ last.data.deliveryBoyCommissionRate =
                   stored(settings.deliveryBoyCommissionRate, 5)
            /\ last.data.minimumWithdrawalAmount =
                   stored(settings.minimumWithdrawalAmount, 1000000)

-----------------------------------------------------------------------------
(* getFinancialDashboard *)

\* the aggregate without its $match stage
RECURSIVE AggregateAnyStatus(_, _, _)
AggregateAnyStatus(commissions, status, i) ==
    IF i > Len(commissions) THEN 0
    ELSE commissions[i].commissionAmount + AggregateAnyStatus(commissions, status, i + 1)

\* Commission.aggregate([{$match: {status}}, {$group: {$sum: "$commissionAmount"}}])
\* with `[0]?.total || 0`: the sum over the commissions of that status, 0
\* when there is none
RECURSIVE Aggregate(_, _, _)
Aggregate(commissions, status, i) ==
    IF i > Len(commissions) THEN 0
    ELSE (IF commissions[i].status = status THEN commissions[i].commissionAmount ELSE 0)
         + Aggregate(commissions, status, i + 1)

\* adminCommissionController.ts lines 231-235: the total of the Paid commissions
DashboardTotal(p) ==
    /\ pc[p] = "idle"
    /\ pc' = [pc EXCEPT ![p] = "dashPending"]
    /\ loc' = [loc EXCEPT ![p] = [op |-> "dashboard",
                                  totalEarnings |-> Aggregate(db.commissions, "Paid", 1)]]
    /\ UNCHANGED <<static, db, stale, last, succeeded, processed, hookRuns>>

\* lines 238-242: the total of the Pending commissions
DashboardPending(p) ==
    /\ pc[p] = "dashPending"
    /\ pc' = [pc EXCEPT ![p] = "dashMonth"]
    /\ loc' = [loc EXCEPT ![p] =
                  [op |-> "dashboard", totalEarnings |-> loc[p].totalEarnings,
                   pendingEarnings |-> Aggregate(db.commissions, "Pending", 1)]]
    /\ UNCHANGED <<static, db, stale, last, succeeded, processed, hookRuns>>

\* lines 245-272: the Paid commissions created since the first of the month
\* (every commission of the model is created in the current month) and the
\* answer
DashboardMonth(p) ==
    /\ pc[p] = "dashMonth"
    /\ last' = [op |-> "dashboard", ok |-> TRUE,
                data |-> [totalEarnings |-> loc[p].totalEarnings,
                          paidEarnings |-> loc[p].totalEarnings,
                          pendingEarnings |-> loc[p].pendingEarnings,
                          thisMonthEarnings |-> Aggregate(db.commissions, "Paid", 1)]]
    /\ pc' = [pc EXCEPT ![p] = "idle"]
    /\ loc' = [loc EXCEPT ![p] = NoCall]
    /\ UNCHANGED <<static, db, stale, succeeded, processed, hookRuns>>

\* one delivered order with two sellers and a delivery partner
InitDashboard ==
    /\ Init
    /\ orders["o1"].items # << >>
    /\ orders["o2"].status # "Delivered"
    /\ settings.isDistanceBased

\* the dashboard beside distribution, reversal and the Delivered hook
NextDashboard ==
    \/ \E p \in Procs, o \in Orders : DistributeStart(p, o)
    \/ \E p \in Procs : DistributeFinish(p)
    \/ \E p \in Procs, o \in Orders : ReverseStart(p, o)
    \/ \E p \in Procs : ReverseFinish(p)
    \/ \E p \in Procs, o \in Orders : HookStart(p, o)
    \/ \E p \in Procs : HookRead(p)
    \/ \E p \in Procs : HookSave(p)
    \/ \E p \in Procs : HookTxn(p)
    \/ \E p \in Procs : HookThrow(p)
    \/ \E p \in Procs : DashboardTotal(p)
    \/ \E p \in Procs : DashboardPending(p)
    \/ \E p \in Procs : DashboardMonth(p)

SpecDashboard == InitDashboard /\ [][NextDashboard]_vars

\* sum of the commissionAmount of the commissions ids
RECURSIVE AmountOver(_, _)
AmountOver(d, ids) ==
    IF ids = {} THEN 0
    ELSE LET i == CHOOSE x \in ids : TRUE
         IN  d.commissions[i].commissionAmount + AmountOver(d, ids \ {i})

WithStatus(d, status) == {i \in 1..Len(d.commissions) : d.commissions[i].status = status}

\* C29: getFinancialDashboard reads as totalEarnings the sum of the
\* commissionAmount of the Paid commissions and as pendingEarnings that of the
\* Pending ones, and answers with them and with paidEarnings = totalEarnings:
\* Cancelled commissions count in none, the Pending ones of the Delivered hook
\* in pendingEarnings only.
C29_DashboardSums ==
    [][\A p \in Procs :
         /\ pc[p] = "idle" /\ pc'[p] = "dashPending"
            => loc'[p].totalEarnings = AmountOver(db, WithStatus(db, "Paid"))
         /\ pc[p] = "dashPending" /\ pc'[p] = "dashMonth"
            => /\ loc'[p].pendingEarnings = AmountOver(db, WithStatus(db, "Pending"))
               /\ loc'[p].totalEarnings = loc[p].totalEarnings
         /\ pc[p] = "dashMonth" /\ pc'[p] = "idle"
            => /\ last'.op = "dashboard"
               /\ last'.data.totalEarnings = loc[p].totalEarnings
               /\ last'.data.paidEarnings = loc[p].totalEarnings
               /\ last'.data.pendingEarnings = loc[p].pendingEarnings]_vars

\* after a distribution was reversed and the hook ran, the dashboard counted
\* the hook's commissions as pending and nothing as earned
C29_Witness ==
    /\ last.op = "dashboard"
    /\ last.data.totalEarnings = 0 /\ last.data.paidEarnings = 0
    /\ last.data.pendingEarnings > 0
    /\ last.data.pendingEarnings = AmountOver(db, WithStatus(db, "Pending"))
    /\ WithStatus(db, "Cancelled") # {}
    /\ WithStatus(db, "Paid") = {}

-----------------------------------------------------------------------------
(* One Commission record per order and subject *)

\* C30: an order never has more than one Commission record for the same
\* seller nor for the same delivery partner, and a seller's record carries as
\* orderAmount the sum of the totals of that seller's items in the order.
C30_OneRecordPerSubject ==
    \A o \in Orders :
        /\ \A s \in Sellers :
              /\ Cardinality({i \in CommissionsOf(db, o) :
                                 db.commissions[i].seller = s}) <= 1
              /\ \A i \in CommissionsOf(db, o) :
                    db.commissions[i].seller = s
                    => db.commissions[i].orderAmount = ItemTotal(orders[o].items, s, 1)
        /\ \A b \in DeliveryBoys :
              Cardinality({i \in CommissionsOf(db, o) :
                             db.commissions[i].deliveryBoy = b}) <= 1

-----------------------------------------------------------------------------
(* Orders without items or without a delivery partner *)

\* the sellers of the items of an order
ItemSellers(order) == {order.items[i].seller : i \in 1..Len(order.items)}

\* C31: distributeCommissions on a Delivered order that has no commissions yet
\* is not refused for having no items or no delivery partner, and unless the
\* store fails it succeeds having created one SELLER commission for each seller
\* of the order's items and one DELIVERY_BOY commission if the order has a
\* delivery partner: nothing at all when the order has neither.
C31_EmptyPartsDistribute ==
    [][/\ /\ last' # last /\ last'.op = "distribute" /\ last'.id \in Orders
          /\ orders[last'.id].status = "Delivered"
          /\ CommissionsOf(db, last'.id) = {}
          => last'.msg \in {"ok", "fault", "write_conflict"}
       /\ \A p \in Procs :
             /\ DistributeReturns(p)
             /\ CommissionsOf(db, loc[p].order) = {}
             /\ last'.msg \notin {"fault", "write_conflict"}
             => LET o == loc[p].order
                    new == CommissionsOf(db', o)
                IN  /\ last'.ok
                    /\ {db'.commissions[i].seller :
                          i \in {j \in new : db'.commissions[j].type = "SELLER"}}
                       = ItemSellers(orders[o])
                    /\ Cardinality(new) =
                          Cardinality(ItemSellers(orders[o]))
                          + (IF orders[o].deliveryBoy = None THEN 0 ELSE 1)
                    /\ orders[o].items = << >> /\ orders[o].deliveryBoy = None
                       => db' = db]_vars

\* the distribution of a Delivered order with no items and no delivery partner
\* succeeded and created nothing
C31_Witness ==
    /\ last.op = "distribute" /\ last.ok /\ last.id \in Orders
    /\ orders[last.id].items = << >> /\ orders[last.id].deliveryBoy = None
    /\ CommissionsOf(db, last.id) = {}
    /\ last.id \in succeeded

-----------------------------------------------------------------------------
(* The commission lifecycle of an order *)

\* C32: once an order has a Cancelled commission, no distributeCommissions
\* call for it returns success or creates a commission, and a Commission that
\* is Cancelled stays Cancelled.
C32_LifecycleForward ==
    [][/\ \A o \in Orders :
             /\ \E i \in CommissionsOf(db, o) : db.commissions[i].status = "Cancelled"
             /\ last' # last /\ last'.op = "distribute" /\ last'.id = o
             => /\ ~last'.ok
                /\ db' = db
       /\ \A o \in Orders, p \in Procs :
             /\ \E i \in CommissionsOf(db, o) : db.commissions[i].status = "Cancelled"
             /\ pc[p] = "idle"
             => ~(pc'[p] = "dist" /\ loc'[p].order = o)
       /\ \A i \in 1..Len(db.commissions) :
             db.commissions[i].status = "Cancelled"
             => /\ Len(db'.commissions) >= i
                /\ db'.commissions[i].status = "Cancelled"]_vars

\* a distribution asked after the reversal of the order was refused
C32_Witness ==
    /\ last.op = "distribute" /\ ~last.ok /\ last.msg = "already_distributed"
    /\ CommissionsOf(db, last.id) # {}
    /\ \A i \in CommissionsOf(db, last.id) : db.commissions[i].status = "Cancelled"

-----------------------------------------------------------------------------
(* The Delivered hook: concurrent runs and the effect of one run *)

\* sum of orderAmount - commissionAmount of the commissions ids
RECURSIVE NetOver(_, _)
NetOver(d, ids) ==
    IF ids = {} THEN 0
    ELSE LET i == CHOOSE x \in ids : TRUE
         IN  d.commissions[i].orderAmount - d.commissions[i].commissionAmount
             + NetOver(d, ids \ {i})

\* the commissions of order o whose seller is s
SellerCommissionsOf(d, o, s) == {i \in CommissionsOf(d, o) : d.commissions[i].seller = s}

\* the WalletTransactions of subject s that refer to o
TxnsOf(d, o, s) == {j \in 1..Len(d.txns) : d.txns[j].subject = s /\ d.txns[j].ref = o}

\* C33: when the Delivered hook has run once for each order and every run
\* went through (each seller of each order has its Credit), each seller's
\* balance is the initial balance 0 plus the net earnings of its items in all
\* the orders, also when the runs were concurrent.
C33_NoLostCredit ==
    /\ \A p \in Procs : pc[p] = "idle"
    /\ \A o \in Orders :
          /\ hookRuns[o] = 1
          /\ \A s \in ItemSellers(orders[o]) : Cardinality(TxnsOf(db, o, s)) = 1
    => \A s \in Sellers :
          db.balance[s] = NetOver(db, UNION {SellerCommissionsOf(db, o, s) : o \in Orders})

\* both orders delivered; the Seller document of s2, who has an item in each,
\* may be missing
InitHookRun ==
    /\ sellers \in [Sellers -> [exists : BOOLEAN, commissionRate : {Unset},
                                commission : {<<0>>, <<15>>}]]
    /\ sellers["s1"] = [exists |-> TRUE, commissionRate |-> Unset, commission |-> <<15>>]
    /\ sellers["s2"].commission = <<0>>
    /\ deliveryBoys = [b \in DeliveryBoys |-> [exists |-> TRUE, commissionRate |-> Unset]]
    /\ products = [x \in Products |->
                     IF x = "p1"
                     THEN [found |-> TRUE, subSubRate |-> <<8>>, subRate |-> <<12>>,
                           catRate |-> <<0>>]
                     ELSE [found |-> TRUE, subSubRate |-> Unset, subRate |-> Unset,
                           catRate |-> Unset]]
    /\ orders \in OrderCfgs
    /\ orders["o1"].items # << >>
    /\ orders["o2"].status = "Delivered"
    /\ settings \in SettingsCfgs
    /\ settings.isDistanceBased
    /\ InitStore

NextHookRun ==
    \/ \E p \in Procs, o \in Orders : HookStart(p, o)
    \/ \E p \in Procs : HookRead(p)
    \/ \E p \in Procs : HookSave(p)
    \/ \E p \in Procs : HookTxn(p)
    \/ \E p \in Procs : HookThrow(p)

SpecHookRun == InitHookRun /\ [][NextHookRun]_vars

\* C34: after one run of the Delivered hook that went through, alone, on an
\* order: each item whose seller exists has one Pending Commission with the
\* item's total and its commission, and the order has no other; each seller's
\* balance has risen from 0 by the sum of total - commission over its items;
\* and each such seller has exactly one WalletTransaction for the order, a
\* Credit of that amount.
C34_OneHookRun ==
    \A o \in Orders :
        /\ \A p \in Procs : pc[p] = "idle"
        /\ hookRuns[o] = 1
        /\ \A x \in Orders \ {o} : hookRuns[x] = 0
        /\ last.op = "hook" /\ last.ok
        => LET items == orders[o].items
               paying == {i \in 1..Len(items) : sellers[items[i].seller].exists}
           IN  /\ Cardinality(CommissionsOf(db, o)) = Cardinality(paying)
               /\ \A i \in paying :
                     \E c \in CommissionsOf(db, o) :
                        /\ db.commissions[c].orderItem = i
                        /\ db.commissions[c].status = "Pending"
                        /\ db.commissions[c].seller = items[i].seller
                        /\ db.commissions[c].orderAmount = items[i].total
                        /\ 100 * db.commissions[c].commissionAmount
                              = items[i].total * db.commissions[c].commissionRate
               /\ \A s \in Sellers :
                     /\ db.balance[s] = NetOver(db, SellerCommissionsOf(db, o, s))
                     /\ Cardinality(TxnsOf(db, o, s))
                           = IF SellerCommissionsOf(db, o, s) = {} THEN 0 ELSE 1
                     /\ \A j \in TxnsOf(db, o, s) :
                           /\ db.txns[j].type = "Credit"
                           /\ db.txns[j].amount = db.balance[s]

\* one run on the order with two items of s1 and one of s2, whose Seller
\* document is missing: two Pending commissions and one Credit
C34_Witness ==
    /\ last.op = "hook" /\ last.ok /\ last.id = "o1"
    /\ \A p \in Procs : pc[p] = "idle"
    /\ hookRuns = [o \in Orders |-> IF o = "o1" THEN 1 ELSE 0]
    /\ ~sellers["s2"].exists
    /\ Cardinality(SellerCommissionsOf(db, "o1", "s1")) = 2
    /\ Cardinality(CommissionsOf(db, "o1")) = 2
    /\ db.balance["s1"] > 0
    /\ Cardinality(TxnsOf(db, "o1", "s1")) = 1

-----------------------------------------------------------------------------
(* validateStatusTransition and the paths it accepts *)

Statuses ==
    {"Received", "Pending", "Processed", "Shipped", "Out for Delivery", "Delivered",
     "Cancelled", "Rejected", "Returned"}

\* a status the table does not know
OtherStatuses == {"Failed"}

\* the table with Cancelled allowed out of Delivered
validateStatusTransitionCancelDelivered(currentStatus, newStatus) ==
    LET allowedStatuses ==
            CASE currentStatus = "Received" -> {"Pending", "Cancelled", "Rejected"}
              [] currentStatus = "Pending" -> {"Processed", "Cancelled", "Rejected"}
              [] currentStatus = "Processed" -> {"Shipped", "Cancelled", "Rejected"}
              [] currentStatus = "Shipped" -> {"Out for Delivery", "Cancelled", "Rejected"}
              [] currentStatus = "Out for Delivery" -> {"Delivered", "Cancelled", "Rejected"}
              [] currentStatus = "Delivered" -> {"Returned", "Cancelled"}
              [] OTHER -> {}
    IN  [valid |-> newStatus \in allowedStatuses, allowed |-> allowedStatuses]

\* orderService.ts lines 222-250
validateStatusTransition(currentStatus, newStatus) ==
    LET allowedStatuses ==
            CASE currentStatus = "Received" -> {"Pending", "Cancelled", "Rejected"}
              [] currentStatus = "Pending" -> {"Processed", "Cancelled", "Rejected"}
              [] currentStatus = "Processed" -> {"Shipped", "Cancelled", "Rejected"}
              [] currentStatus = "Shipped" -> {"Out for Delivery", "Cancelled", "Rejected"}
              [] currentStatus = "Out for Delivery" -> {"Delivered", "Cancelled", "Rejected"}
              [] currentStatus = "Delivered" -> {"Returned"}
              [] currentStatus \in {"Cancelled", "Rejected", "Returned"} -> {}
              [] OTHER -> {}
    IN  [valid |-> newStatus \in allowedStatuses, allowed |-> allowedStatuses]

\* how often order o has become Delivered, as the answers record it
TimesDelivered(o) == IF last.op = "transition" THEN last.delivered[o] ELSE 0

\* a caller asks for a transition of order o: a transition that
\* validateStatusTransition accepts becomes the order's status, one that it
\* refuses changes nothing
RequestTransition(o, newStatus) ==
    LET currentStatus == orders[o].status
        v == validateStatusTransition(currentStatus, newStatus)
    IN  /\ orders' = IF v.valid THEN [orders EXCEPT ![o].status = newStatus] ELSE orders
        /\ last' = [op |-> "transition", order |-> o, from |-> currentStatus,
                    to |-> newStatus, valid |-> v.valid,
                    delivered |-> [x \in Orders |->
                                     TimesDelivered(x)
                                     + (IF x = o /\ v.valid /\ newStatus = "Delivered"
                                        THEN 1 ELSE 0)]]
        /\ UNCHANGED <<sellers, deliveryBoys, products, settings, db, pc, loc, stale,
                       succeeded, processed, hookRuns>>

\* orders as they are placed, o2 possibly in a status the table does not know
InitStatus ==
    /\ sellers = [s \in Sellers |->
                    [exists |-> TRUE, commissionRate |-> Unset, commission |-> <<0>>]]
    /\ deliveryBoys = [b \in DeliveryBoys |-> [exists |-> TRUE, commissionRate |-> Unset]]
    /\ products = [x \in Products |->
                     [found |-> TRUE, subSubRate |-> Unset, subRate |-> Unset,
                      catRate |-> Unset]]
    /\ \E cfg \in OrderCfgs, other \in {"Received"} \cup OtherStatuses :
          orders = [o \in Orders |->
                      [cfg[o] EXCEPT !.status = IF o = "o1" THEN "Received" ELSE other]]
    /\ settings \in SettingsCfgs
    /\ InitStore

NextStatus ==
    \E o \in Orders, newStatus \in Statuses \cup OtherStatuses : RequestTransition(o, newStatus)

SpecStatus == InitStatus /\ [][NextStatus]_vars

\* C35: validateStatusTransition accepts Delivered only from "Out for
\* Delivery", only Returned from Delivered and nothing from Cancelled,
\* Rejected or Returned; along the accepted transitions an order becomes
\* Delivered at most once and is never Cancelled once it has been Delivered.
C35_DeliveredOnce ==
    /\ last.op = "transition" /\ last.valid =>
          /\ last.to = "Delivered" => last.from = "Out for Delivery"
          /\ last.from = "Delivered" => last.to = "Returned"
          /\ last.from \notin {"Cancelled", "Rejected", "Returned"}
    /\ \A o \in Orders :
          /\ TimesDelivered(o) <= 1
          /\ TimesDelivered(o) >= 1 => orders[o].status \in {"Delivered", "Returned"}

\* an order went all the way to Delivered and was then returned
C35_Witness ==
    /\ last.op = "transition" /\ last.valid
    /\ last.from = "Delivered" /\ last.to = "Returned"
    /\ orders[last.order].status = "Returned"
    /\ TimesDelivered(last.order) = 1

-----------------------------------------------------------------------------
(* processOrderStatusTransition along the transitions validateStatusTransition accepts *)

\* the statuses an order is asked to take before it is delivered
PreDeliveryStatuses ==
    {"Pending", "Processed", "Shipped", "Out for Delivery", "Cancelled", "Rejected"}

\* sum of the quantity of the items from i on whose product is x
RECURSIVE QuantityOf(_, _, _)
QuantityOf(items, x, i) ==
    IF i > Len(items) THEN 0
    ELSE (IF items[i].product = x THEN items[i].quantity ELSE 0)
         + QuantityOf(items, x, i + 1)

\* a transition of order o that validateStatusTransition accepts: the order
\* takes the new status and processOrderStatusTransition (orderService.ts
\* lines 15-52) runs with the status the order had as previousStatus
AcceptedTransition(o, newStatus) ==
    LET previousStatus == orders[o].status
    IN  /\ validateStatusTransition(previousStatus, newStatus).valid
        /\ orders' = [orders EXCEPT ![o].status = newStatus]
        /\ db' = IF newStatus = "Cancelled"
                    /\ previousStatus \in {"Processed", "Shipped"}
                 THEN restoreInventory(db, orders[o].items, 1)
                 ELSE IF newStatus = "Processed"
                 THEN reserveInventory(db, orders[o].items, 1)
                 ELSE db
        /\ last' = [op |-> "transition", id |-> o, newStatus |-> newStatus,
                    previousStatus |-> previousStatus, ok |-> TRUE, msg |-> "ok"]
        /\ UNCHANGED <<sellers, deliveryBoys, products, settings, pc, loc, stale,
                       succeeded, processed, hookRuns>>

InitCancel ==
    /\ InitStatus
    /\ orders["o1"].items # << >>

NextCancel ==
    \E o \in Orders, newStatus \in PreDeliveryStatuses : AcceptedTransition(o, newStatus)

SpecCancel == InitCancel /\ [][NextCancel]_vars

\* C36: when an order that is Processed, Shipped or out for delivery (so its
\* inventory was reserved when it became Processed) is cancelled, the
\* reservedStock of each product goes down by the quantity the order holds of
\* it, never below 0.
C36_CancelReleasesReservation ==
    [][\A o \in Orders :
         /\ orders[o].status \in {"Processed", "Shipped", "Out for Delivery"}
         /\ orders'[o].status = "Cancelled"
         => \A x \in Products :
               db'.inventory[x].reservedStock
               = Max(0, db.inventory[x].reservedStock - QuantityOf(orders[o].items, x, 1))]_vars

-----------------------------------------------------------------------------
(* processWithdrawal with an action that is neither Approve nor Reject *)

\* the step in which the processWithdrawal call of p ends its transaction
WithdrawReturns(p) == pc[p] = "wd" /\ pc'[p] = "idle"

\* C37: a processWithdrawal call whose action is neither Approve nor Reject
\* changes no request (one that is Pending stays Pending with no processedAt),
\* no balance and no WalletTransaction, and it answers success unless the
\* database failed.
C37_OtherActionChangesNothing ==
    [][\A p \in Procs :
         WithdrawReturns(p) /\ loc[p].action \notin {"Approve", "Reject"}
         => /\ db'.requests = db.requests
            /\ db.requests[loc[p].id].status = "Pending"
               => /\ db'.requests[loc[p].id].status = "Pending"
                  /\ db'.requests[loc[p].id].processedAt = None
            /\ db'.balance = db.balance
            /\ db'.txns = db.txns
            /\ processed' = processed
            /\ last'.ok \/ last'.msg = "fault"]_vars

\* a Hold of the Pending request was answered with success and the request is
\* still Pending
C37_Witness ==
    /\ last.op = "withdraw" /\ last.action = "Hold" /\ last.ok
    /\ last.before = "Pending"
    /\ db.requests[last.id].status = "Pending"
    /\ db.requests[last.id].processedAt = None

-----------------------------------------------------------------------------
(* reverseCommissions on commissions that are not Paid *)

\* the commissions of order o that are Paid and whose subject is s
PaidOf(d, o, s) ==
    {i \in CommissionsOf(d, o) :
        /\ d.commissions[i].status = "Paid"
        /\ s = (IF d.commissions[i].type = "SELLER" THEN d.commissions[i].seller
                ELSE d.commissions[i].deliveryBoy)}

\* the WalletTransactions of subject s
TxnsFor(d, s) == SelectSeq(d.txns, LAMBDA t : t.subject = s)

\* C38: a reverseCommissions call changes no Commission that is Pending or
\* Cancelled and leaves the balance and the WalletTransactions of every
\* subject that has no Paid commission of the order; on an order whose
\* commissions are all Pending it changes nothing at all and returns success
\* unless the database failed.
C38_ReverseSkipsUnpaid ==
    [][\A p \in Procs :
         ReverseReturns(p) =>
            LET o == loc[p].order
            IN  /\ \A i \in 1..Len(db.commissions) :
                      db.commissions[i].status \in {"Pending", "Cancelled"}
                      => db'.commissions[i] = db.commissions[i]
                /\ \A s \in Subjects :
                      PaidOf(db, o, s) = {}
                      => /\ db'.balance[s] = db.balance[s]
                         /\ TxnsFor(db', s) = TxnsFor(db, s)
                /\ (\A i \in CommissionsOf(db, o) : db.commissions[i].status = "Pending")
                   => /\ db' = db
                      /\ last'.ok \/ last'.msg = "fault"]_vars

\* reverseCommissions returned success on an order whose commissions the
\* Delivered hook created: they are still Pending and a seller still holds the
\* net earnings
C38_Witness ==
    /\ last.op = "reverse" /\ last.ok /\ last.msg = "ok"
    /\ hookRuns[last.id] >= 1
    /\ CommissionsOf(db, last.id) # {}
    /\ \A i \in CommissionsOf(db, last.id) : db.commissions[i].status = "Pending"
    /\ \E s \in Sellers : db.balance[s] > 0

====
